---- MODULE Spec2Model ----
(***************************************************************************)
(* The KLV (Key-Length-Value) parser, validator and builder of             *)
(* utils/KLVParser.ts, as a state machine (Spec), and direct calls of its  *)
(* value decorators and of export (ApiSpec).                               *)
(*                                                                         *)
(* Strings.  A JavaScript string is a sequence of UTF-16 code units.  A    *)
(* buffer (the parser's input, a key, a value) is a TLA+ sequence with one *)
(* element per code unit: an ASCII unit is the one-character string, any   *)
(* other unit is written "[U+XXXX]".  Text that the program only copies    *)
(* from a literal (field names, descriptions, the fixed part of a message) *)
(* is kept as one element holding the literal's text, so a produced string *)
(* is the concatenation of the elements of its sequence.                   *)
(***************************************************************************)
EXTENDS Integers, Sequences, FiniteSets, TLC

VARIABLES
  entries,     \* the KLVBuildEntry[] handed to build
  built,       \* the string build returned
  klvString,   \* the string handed to parse and validate
  pc,          \* where the run is
  clean,       \* parse: klvString without whitespace
  pos,         \* parse: the cursor
  results,     \* parse: the entries pushed so far
  errors,      \* parse: the messages pushed so far
  iterations,  \* parse: passes through the loop body so far
  validation,  \* what validate returned
  call,        \* a direct call of a decorator or of export: its arguments
  ret,         \* what that call returned
  klvInput,    \* App: the text of the extractor's input box
  history,     \* App: the processing history, newest first
  activeTab,   \* App: the tab whose panel is drawn
  reading,     \* FileUpload: the files whose text has not arrived, each
               \* with the history of the render it was chosen in
  handOvers,   \* the number of files chosen and builder results so far
  batchInput,  \* BatchProcessor: the text of the batch input box
  processing,  \* BatchProcessor: the processing flag
  batchResults,\* BatchProcessor: the results it displays
  inFlight,    \* BatchProcessor: the batches waiting for their delay to end
  onProcess,   \* BatchProcessor: the arguments of the calls of onProcess
  cleared      \* history variable: Clear was clicked after the last
               \* click of Process Batch

coreVars == <<built, klvString, pc, clean, pos, results, errors, iterations,
              validation, call, ret>>
appVars == <<klvInput, history, activeTab, reading, handOvers>>
batchVars == <<batchInput, processing, batchResults, inFlight, onProcess,
               cleared>>
vars == <<entries, coreVars, appVars, batchVars>>

(***************************************************************************)
(* Bounds of the model.                                                    *)
(***************************************************************************)
MaxLen == 6        \* typed inputs: every string over Alphabet up to this length
MaxEntries == 2    \* build inputs: every list of entries up to this length
MaxEditLen == 12   \* built strings up to this length are edited before parsing

(***************************************************************************)
(* Characters.                                                             *)
(***************************************************************************)
Digits == {"0", "1", "2", "3", "4", "5", "6", "7", "8", "9"}

\* The code units the regular expression class \s matches, which are those
\* String.prototype.trim removes.
WhiteSpace ==
  {"\t", "\n", "[U+000B]", "\f", "\r", " ", "[U+00A0]", "[U+1680]",
   "[U+2000]", "[U+2001]", "[U+2002]", "[U+2003]", "[U+2004]", "[U+2005]",
   "[U+2006]", "[U+2007]", "[U+2008]", "[U+2009]", "[U+200A]", "[U+2028]",
   "[U+2029]", "[U+202F]", "[U+205F]", "[U+3000]", "[U+FEFF]"}

DigitValue(c) ==
  CASE c = "0" -> 0 [] c = "1" -> 1 [] c = "2" -> 2 [] c = "3" -> 3
    [] c = "4" -> 4 [] c = "5" -> 5 [] c = "6" -> 6 [] c = "7" -> 7
    [] c = "8" -> 8 [] c = "9" -> 9

DigitChar(n) == CHOOSE c \in Digits : DigitValue(c) = n

Min(a, b) == IF a < b THEN a ELSE b
Max(a, b) == IF a > b THEN a ELSE b

\* c.repeat(n)
Repeat(c, n) == [i \in 1..n |-> c]

(***************************************************************************)
(* String primitives of the JavaScript runtime, as the code uses them.     *)
(***************************************************************************)
\* String.prototype.substring(a, b): units a .. b-1, both ends clamped.
substring(s, a, b) ==
  LET lo == Min(Max(Min(a, b), 0), Len(s))
      hi == Min(Max(Max(a, b), 0), Len(s))
  IN  SubSeq(s, lo + 1, hi)

\* String.prototype.padStart(n, c).
padStart(s, n, c) ==
  IF Len(s) >= n THEN s ELSE [i \in 1..(n - Len(s)) |-> c] \o s

\* Number.prototype.toString() of a natural number.
RECURSIVE toString(_)
toString(n) ==
  IF n < 10 THEN <<DigitChar(n)>>
  ELSE toString(n \div 10) \o <<DigitChar(n % 10)>>

\* Mutant of parseInt: the digits are read in base 16.
RECURSIVE parseIntBase16(_)
parseIntBase16(s) ==
  IF Len(s) = 0 THEN 0
  ELSE 16 * parseIntBase16(SubSeq(s, 1, Len(s) - 1)) + DigitValue(s[Len(s)])

\* parseInt(s, 10) of a string of decimal digits.
RECURSIVE parseInt(_)
parseInt(s) ==
  IF Len(s) = 0 THEN 0
  ELSE 10 * parseInt(SubSeq(s, 1, Len(s) - 1)) + DigitValue(s[Len(s)])

\* Mutant of removeWhitespace: only the first whitespace character is removed.
removeFirstWhitespace(s) ==
  IF \A i \in 1..Len(s) : s[i] \notin WhiteSpace THEN s
  ELSE LET first == CHOOSE i \in 1..Len(s) :
                      /\ s[i] \in WhiteSpace
                      /\ \A j \in 1..(i - 1) : s[j] \notin WhiteSpace
       IN  SubSeq(s, 1, first - 1) \o SubSeq(s, first + 1, Len(s))

\* klvString.replace(/\s/g, '')
removeWhitespace(s) == SelectSeq(s, LAMBDA c : c \notin WhiteSpace)

\* /^\d{n}$/.test(s)
testDigits(s, n) == Len(s) = n /\ \A i \in 1..n : s[i] \in Digits

\* The values null and undefined.
null == [null |-> TRUE]
undefined == [undefined |-> TRUE]

(***************************************************************************)
(* The static tables: sets of <<property name, value>> pairs.              *)
(***************************************************************************)
definitions ==
  { <<<<"0","0","2">>, "Tracking Number">>,
    <<<<"0","0","4">>, "Original Transaction Amount">>,
    <<<<"0","1","0">>, "Conversion Rate">>,
    <<<<"0","2","6">>, "Merchant Category Code">>,
    <<<<"0","3","2">>, "Acquiring Institution Code">>,
    <<<<"0","3","7">>, "Retrieval Reference Number">>,
    <<<<"0","4","1">>, "Terminal ID">>,
    <<<<"0","4","2">>, "Merchant Identifier">>,
    <<<<"0","4","3">>, "Merchant Description">>,
    <<<<"0","4","4">>, "Merchant Name">>,
    <<<<"0","4","5">>, "Transaction Type Identifier">>,
    <<<<"0","4","8">>, "Fraud Scoring Data">>,
    <<<<"0","4","9">>, "Original Currency Code">>,
    <<<<"0","5","0">>, "From Account">>,
    <<<<"0","5","2">>, "Pin Block">>,
    <<<<"0","6","1">>, "POS Data">>,
    <<<<"0","6","3">>, "TraceID">>,
    <<<<"0","6","7">>, "Extended Payment Code">>,
    <<<<"0","6","8">>, "Is Recurring">>,
    <<<<"0","6","9">>, "Message Reason Code">>,
    <<<<"0","8","5">>, "Markup Amount">>,
    <<<<"1","0","8">>, "Recipient Name">>,
    <<<<"1","0","9">>, "Recipient Address">>,
    <<<<"1","1","0">>, "Recipient Account Number">>,
    <<<<"1","1","1">>, "Recipient Account Number Type">>,
    <<<<"2","5","0">>, "Capture Mode">>,
    <<<<"2","5","1">>, "Network">>,
    <<<<"2","5","2">>, "Fee Type">>,
    <<<<"2","5","3">>, "Last Four Digits PAN">>,
    <<<<"2","5","4">>, "MDES Digitized PAN">>,
    <<<<"2","5","5">>, "MDES Digitized Wallet ID">>,
    <<<<"2","5","6">>, "Adjustment Reason">>,
    <<<<"2","5","7">>, "Reference ID">>,
    <<<<"2","5","8">>, "Markup Type">>,
    <<<<"2","5","9">>, "Acquirer Country">>,
    <<<<"2","6","0">>, "Mobile Number">>,
    <<<<"2","6","1">>, "Transaction Fee Amount">>,
    <<<<"2","6","2">>, "Transaction Subtype">>,
    <<<<"2","6","3">>, "Card Issuer Data">>,
    <<<<"2","6","4">>, "Tax">>,
    <<<<"2","6","5">>, "Tax Amount Base">>,
    <<<<"2","6","6">>, "Retailer Data">>,
    <<<<"2","6","7">>, "IAC Tax Amount">>,
    <<<<"2","6","8">>, "Number of Installments">>,
    <<<<"2","6","9">>, "Customer ID">>,
    <<<<"2","7","0">>, "Security Services Data">>,
    <<<<"2","7","1">>, "On Behalf of Services">>,
    <<<<"2","7","2">>, "Original Merchant Description">>,
    <<<<"2","7","3">>, "Installments Financing Type">>,
    <<<<"2","7","4">>, "Status">>,
    <<<<"2","7","5">>, "Installments Grace Period">>,
    <<<<"2","7","6">>, "Installments Type of Credit">>,
    <<<<"2","7","7">>, "Payments Initiator">>,
    <<<<"2","7","8">>, "Payment Initiator Subtype">>,
    <<<<"3","0","0">>, "Additional Amount">>,
    <<<<"3","0","1">>, "Second Additional Amount">>,
    <<<<"3","0","2">>, "Cashback POS Currency Code">>,
    <<<<"3","0","3">>, "Cashback POS Amount">>,
    <<<<"4","0","0">>, "Sender Name">>,
    <<<<"4","0","1">>, "Sender Address">>,
    <<<<"4","0","2">>, "Sender City">>,
    <<<<"4","0","3">>, "Sender State">>,
    <<<<"4","0","4">>, "Sender Country">>,
    <<<<"4","0","5">>, "Sanction Screening Score">>,
    <<<<"4","0","6">>, "Business Application Identifier">>,
    <<<<"4","0","8">>, "Special Condition Indicator">>,
    <<<<"4","0","9">>, "Business Tax ID">>,
    <<<<"4","1","0">>, "Individual Tax ID">>,
    <<<<"4","1","1">>, "Source of Funds">>,
    <<<<"4","1","2">>, "Sender Account Number">>,
    <<<<"4","1","3">>, "Sender Account Number Type">>,
    <<<<"4","1","4">>, "MVV">>,
    <<<<"4","1","5">>, "Sender Reference Number">>,
    <<<<"4","1","6">>, "Is AFD Transaction">>,
    <<<<"4","1","7">>, "Acquirer Fee Amount">>,
    <<<<"4","1","8">>, "Address Verification Result">>,
    <<<<"4","1","9">>, "Postal Code / ZIP Code">>,
    <<<<"4","2","0">>, "Street Address">>,
    <<<<"4","2","1">>, "Sender Date of Birth">>,
    <<<<"4","2","2">>, "OCT Activity Check Result">>,
    <<<<"4","2","3">>, "Sender Postal Code">>,
    <<<<"4","2","4">>, "Recipient City">>,
    <<<<"4","2","5">>, "Recipient Country">>,
    <<<<"9","0","0">>, "3D Secure OTP">>,
    <<<<"9","0","1">>, "Digitization Activation">>,
    <<<<"9","0","2">>, "Digitization Activation Method Type">>,
    <<<<"9","0","3">>, "Digitization Activation Method Value">>,
    <<<<"9","0","4">>, "Digitization Activation Expiry">>,
    <<<<"9","0","5">>, "Digitization Final Tokenization Decision">>,
    <<<<"9","0","6">>, "Device Name">>,
    <<<<"9","1","0">>, "Digitized Device ID">>,
    <<<<"9","1","1">>, "Digitized PAN Expiry">>,
    <<<<"9","1","2">>, "Digitized FPAN Masked">>,
    <<<<"9","1","3">>, "Token Unique Reference">>,
    <<<<"9","1","5">>, "Digitized Token Requestor ID">>,
    <<<<"9","1","6">>, "Visa Digitized PAN">>,
    <<<<"9","1","7">>, "Visa Token Type">>,
    <<<<"9","2","0">>, "POS Transaction Status">>,
    <<<<"9","2","1">>, "POS Transaction Security">>,
    <<<<"9","2","2">>, "POS Authorisation Lifecycle">>,
    <<<<"9","2","3">>, "Digitization Event Type">>,
    <<<<"9","2","4">>, "Digitization Event Reason Code">>,
    <<<<"9","2","5">>, "Supports Partial Auth">>,
    <<<<"9","2","9">>, "Digitization Path">>,
    <<<<"9","3","0">>, "Wallet Recommendation">>,
    <<<<"9","3","1">>, "Tokenization PAN Source">>,
    <<<<"9","3","2">>, "Unique Transaction Reference">>,
    <<<<"9","3","3">>, "Transaction Purpose">>,
    <<<<"9","3","4">>, "3D Secure OTP RefCode">>,
    <<<<"9","9","9">>, "Generic Key">> }

currencyMapping ==
  { <<<<"8","4","0">>, [name |-> "US Dollar", code |-> "USD", flag |-> "[U+1F1FA][U+1F1F8]"]>>,
    <<<<"9","7","8">>, [name |-> "Euro", code |-> "EUR", flag |-> "[U+1F1EA][U+1F1FA]"]>>,
    <<<<"8","2","6">>, [name |-> "Pound Sterling", code |-> "GBP", flag |-> "[U+1F1EC][U+1F1E7]"]>>,
    <<<<"3","9","2">>, [name |-> "Japanese Yen", code |-> "JPY", flag |-> "[U+1F1EF][U+1F1F5]"]>>,
    <<<<"7","5","6">>, [name |-> "Swiss Franc", code |-> "CHF", flag |-> "[U+1F1E8][U+1F1ED]"]>>,
    <<<<"1","2","4">>, [name |-> "Canadian Dollar", code |-> "CAD", flag |-> "[U+1F1E8][U+1F1E6]"]>>,
    <<<<"0","3","6">>, [name |-> "Australian Dollar", code |-> "AUD", flag |-> "[U+1F1E6][U+1F1FA]"]>>,
    <<<<"5","5","4">>, [name |-> "New Zealand Dollar", code |-> "NZD", flag |-> "[U+1F1F3][U+1F1FF]"]>>,
    <<<<"1","5","6">>, [name |-> "Chinese Yuan", code |-> "CNY", flag |-> "[U+1F1E8][U+1F1F3]"]>>,
    <<<<"3","5","6">>, [name |-> "Indian Rupee", code |-> "INR", flag |-> "[U+1F1EE][U+1F1F3]"]>>,
    <<<<"7","5","2">>, [name |-> "Swedish Krona", code |-> "SEK", flag |-> "[U+1F1F8][U+1F1EA]"]>>,
    <<<<"5","7","8">>, [name |-> "Norwegian Krone", code |-> "NOK", flag |-> "[U+1F1F3][U+1F1F4]"]>>,
    <<<<"2","0","8">>, [name |-> "Danish Krone", code |-> "DKK", flag |-> "[U+1F1E9][U+1F1F0]"]>>,
    <<<<"9","8","5">>, [name |-> "Polish Zloty", code |-> "PLN", flag |-> "[U+1F1F5][U+1F1F1]"]>>,
    <<<<"2","0","3">>, [name |-> "Czech Koruna", code |-> "CZK", flag |-> "[U+1F1E8][U+1F1FF]"]>>,
    <<<<"3","4","8">>, [name |-> "Hungarian Forint", code |-> "HUF", flag |-> "[U+1F1ED][U+1F1FA]"]>>,
    <<<<"9","4","6">>, [name |-> "Romanian Leu", code |-> "RON", flag |-> "[U+1F1F7][U+1F1F4]"]>>,
    <<<<"9","7","5">>, [name |-> "Bulgarian Lev", code |-> "BGN", flag |-> "[U+1F1E7][U+1F1EC]"]>>,
    <<<<"1","9","1">>, [name |-> "Croatian Kuna", code |-> "HRK", flag |-> "[U+1F1ED][U+1F1F7]"]>>,
    <<<<"9","4","1">>, [name |-> "Serbian Dinar", code |-> "RSD", flag |-> "[U+1F1F7][U+1F1F8]"]>>,
    <<<<"7","0","2">>, [name |-> "Singapore Dollar", code |-> "SGD", flag |-> "[U+1F1F8][U+1F1EC]"]>>,
    <<<<"3","4","4">>, [name |-> "Hong Kong Dollar", code |-> "HKD", flag |-> "[U+1F1ED][U+1F1F0]"]>>,
    <<<<"4","1","0">>, [name |-> "Korean Won", code |-> "KRW", flag |-> "[U+1F1F0][U+1F1F7]"]>>,
    <<<<"7","6","4">>, [name |-> "Thai Baht", code |-> "THB", flag |-> "[U+1F1F9][U+1F1ED]"]>>,
    <<<<"4","5","8">>, [name |-> "Malaysian Ringgit", code |-> "MYR", flag |-> "[U+1F1F2][U+1F1FE]"]>>,
    <<<<"3","6","0">>, [name |-> "Indonesian Rupiah", code |-> "IDR", flag |-> "[U+1F1EE][U+1F1E9]"]>>,
    <<<<"6","0","8">>, [name |-> "Philippine Peso", code |-> "PHP", flag |-> "[U+1F1F5][U+1F1ED]"]>>,
    <<<<"7","0","4">>, [name |-> "Vietnamese Dong", code |-> "VND", flag |-> "[U+1F1FB][U+1F1F3]"]>>,
    <<<<"0","9","6">>, [name |-> "Brunei Dollar", code |-> "BND", flag |-> "[U+1F1E7][U+1F1F3]"]>>,
    <<<<"4","8","4">>, [name |-> "Mexican Peso", code |-> "MXN", flag |-> "[U+1F1F2][U+1F1FD]"]>>,
    <<<<"9","8","6">>, [name |-> "Brazilian Real", code |-> "BRL", flag |-> "[U+1F1E7][U+1F1F7]"]>>,
    <<<<"0","3","2">>, [name |-> "Argentine Peso", code |-> "ARS", flag |-> "[U+1F1E6][U+1F1F7]"]>>,
    <<<<"1","5","2">>, [name |-> "Chilean Peso", code |-> "CLP", flag |-> "[U+1F1E8][U+1F1F1]"]>>,
    <<<<"6","0","4">>, [name |-> "Peruvian Sol", code |-> "PEN", flag |-> "[U+1F1F5][U+1F1EA]"]>>,
    <<<<"1","7","0">>, [name |-> "Colombian Peso", code |-> "COP", flag |-> "[U+1F1E8][U+1F1F4]"]>>,
    <<<<"8","5","8">>, [name |-> "Uruguayan Peso", code |-> "UYU", flag |-> "[U+1F1FA][U+1F1FE]"]>>,
    <<<<"6","0","0">>, [name |-> "Paraguayan Guarani", code |-> "PYG", flag |-> "[U+1F1F5][U+1F1FE]"]>>,
    <<<<"0","6","8">>, [name |-> "Bolivian Boliviano", code |-> "BOB", flag |-> "[U+1F1E7][U+1F1F4]"]>>,
    <<<<"2","1","8">>, [name |-> "Ecuadorian Sucre", code |-> "ECS", flag |-> "[U+1F1EA][U+1F1E8]"]>>,
    <<<<"7","8","4">>, [name |-> "UAE Dirham", code |-> "AED", flag |-> "[U+1F1E6][U+1F1EA]"]>>,
    <<<<"6","8","2">>, [name |-> "Saudi Riyal", code |-> "SAR", flag |-> "[U+1F1F8][U+1F1E6]"]>>,
    <<<<"3","7","6">>, [name |-> "Israeli New Shekel", code |-> "ILS", flag |-> "[U+1F1EE][U+1F1F1]"]>>,
    <<<<"8","1","8">>, [name |-> "Egyptian Pound", code |-> "EGP", flag |-> "[U+1F1EA][U+1F1EC]"]>>,
    <<<<"7","1","0">>, [name |-> "South African Rand", code |-> "ZAR", flag |-> "[U+1F1FF][U+1F1E6]"]>>,
    <<<<"5","6","6">>, [name |-> "Nigerian Naira", code |-> "NGN", flag |-> "[U+1F1F3][U+1F1EC]"]>>,
    <<<<"4","0","4">>, [name |-> "Kenyan Shilling", code |-> "KES", flag |-> "[U+1F1F0][U+1F1EA]"]>>,
    <<<<"7","8","8">>, [name |-> "Tunisian Dinar", code |-> "TND", flag |-> "[U+1F1F9][U+1F1F3]"]>>,
    <<<<"5","0","4">>, [name |-> "Moroccan Dirham", code |-> "MAD", flag |-> "[U+1F1F2][U+1F1E6]"]>>,
    <<<<"0","1","2">>, [name |-> "Algerian Dinar", code |-> "DZD", flag |-> "[U+1F1E9][U+1F1FF]"]>>,
    <<<<"6","4","3">>, [name |-> "Russian Ruble", code |-> "RUB", flag |-> "[U+1F1F7][U+1F1FA]"]>>,
    <<<<"9","8","0">>, [name |-> "Ukrainian Hryvnia", code |-> "UAH", flag |-> "[U+1F1FA][U+1F1E6]"]>>,
    <<<<"3","9","8">>, [name |-> "Kazakhstani Tenge", code |-> "KZT", flag |-> "[U+1F1F0][U+1F1FF]"]>>,
    <<<<"0","5","1">>, [name |-> "Armenian Dram", code |-> "AMD", flag |-> "[U+1F1E6][U+1F1F2]"]>>,
    <<<<"0","3","1">>, [name |-> "Azerbaijani Manat", code |-> "AZN", flag |-> "[U+1F1E6][U+1F1FF]"]>>,
    <<<<"9","3","4">>, [name |-> "Turkmenistani Manat", code |-> "TMT", flag |-> "[U+1F1F9][U+1F1F2]"]>>,
    <<<<"8","6","0">>, [name |-> "Uzbekistani Som", code |-> "UZS", flag |-> "[U+1F1FA][U+1F1FF]"]>>,
    <<<<"4","1","7">>, [name |-> "Kyrgyzstani Som", code |-> "KGS", flag |-> "[U+1F1F0][U+1F1EC]"]>>,
    <<<<"9","7","2">>, [name |-> "Tajikistani Somoni", code |-> "TJS", flag |-> "[U+1F1F9][U+1F1EF]"]>>,
    <<<<"9","4","9">>, [name |-> "Turkish Lira", code |-> "TRY", flag |-> "[U+1F1F9][U+1F1F7]"]>>,
    <<<<"3","6","4">>, [name |-> "Iranian Rial", code |-> "IRR", flag |-> "[U+1F1EE][U+1F1F7]"]>>,
    <<<<"3","6","8">>, [name |-> "Iraqi Dinar", code |-> "IQD", flag |-> "[U+1F1EE][U+1F1F6]"]>>,
    <<<<"4","1","4">>, [name |-> "Kuwaiti Dinar", code |-> "KWD", flag |-> "[U+1F1F0][U+1F1FC]"]>>,
    <<<<"0","4","8">>, [name |-> "Bahraini Dinar", code |-> "BHD", flag |-> "[U+1F1E7][U+1F1ED]"]>>,
    <<<<"6","3","4">>, [name |-> "Qatari Rial", code |-> "QAR", flag |-> "[U+1F1F6][U+1F1E6]"]>>,
    <<<<"5","1","2">>, [name |-> "Omani Rial", code |-> "OMR", flag |-> "[U+1F1F4][U+1F1F2]"]>>,
    <<<<"4","2","2">>, [name |-> "Lebanese Pound", code |-> "LBP", flag |-> "[U+1F1F1][U+1F1E7]"]>>,
    <<<<"4","0","0">>, [name |-> "Jordanian Dinar", code |-> "JOD", flag |-> "[U+1F1EF][U+1F1F4]"]>> }

mccMapping ==
  { <<<<"0","7","4","2">>, "Veterinary Services">>,
    <<<<"0","7","6","3">>, "Agricultural Cooperative">>,
    <<<<"0","7","8","0">>, "Horticultural and Landscaping Services">>,
    <<<<"1","5","2","0">>, "General Contractors - Residential and Commercial">>,
    <<<<"1","7","1","1">>, "Heating, Plumbing, Air Conditioning Contractors">>,
    <<<<"1","7","3","1">>, "Electrical Contractors">>,
    <<<<"1","7","4","0">>, "Masonry, Stonework, Tile Setting, Plastering, and Insulation Contractors">>,
    <<<<"1","7","5","0">>, "Carpentry Contractors">>,
    <<<<"1","7","6","1">>, "Roofing, Siding, and Sheet Metal Work Contractors">>,
    <<<<"1","7","7","1">>, "Concrete Work Contractors">>,
    <<<<"1","7","9","9">>, "Special Trade Contractors - Not Elsewhere Classified">>,
    <<<<"3","0","0","0">>, "United Airlines">>,
    <<<<"3","0","0","1">>, "American Airlines">>,
    <<<<"3","0","0","2">>, "Pan American">>,
    <<<<"3","0","0","3">>, "Alitalia">>,
    <<<<"3","0","0","4">>, "Delta Air Lines">>,
    <<<<"3","0","0","5">>, "British Airways">>,
    <<<<"3","0","0","6">>, "Japan Air Lines">>,
    <<<<"3","0","0","7">>, "Air France">>,
    <<<<"3","0","0","8">>, "Lufthansa">>,
    <<<<"3","0","0","9">>, "Air Canada">>,
    <<<<"3","0","1","0">>, "KLM Royal Dutch Airlines">>,
    <<<<"3","0","1","1">>, "Aeroflot Russian International Airlines">>,
    <<<<"3","0","1","2">>, "Qantas Airways">>,
    <<<<"3","0","1","3">>, "Alaskan Airlines">>,
    <<<<"3","0","1","4">>, "North West Airlines">>,
    <<<<"3","0","1","5">>, "Braniff International Airways">>,
    <<<<"3","0","1","6">>, "Southwest Airlines">>,
    <<<<"3","0","1","7">>, "Continental Airlines">>,
    <<<<"3","0","1","8">>, "Federal Express Corporation">>,
    <<<<"3","0","1","9">>, "US Airways">>,
    <<<<"3","0","2","0">>, "Air New Zealand">>,
    <<<<"3","0","2","1">>, "Singapore Airlines">>,
    <<<<"3","0","2","2">>, "SAS">>,
    <<<<"3","0","2","3">>, "Eastern Airlines">>,
    <<<<"3","0","2","4">>, "America West Airlines">>,
    <<<<"3","0","2","5">>, "Philippines Airlines">>,
    <<<<"3","0","2","6">>, "China Airlines">>,
    <<<<"3","0","2","7">>, "Air India">>,
    <<<<"3","0","2","8">>, "Korean Air Lines">>,
    <<<<"3","0","2","9">>, "Malaysian Airlines">>,
    <<<<"3","0","3","0">>, "Thai Airways International">>,
    <<<<"3","0","3","1">>, "Sabena Belgian World Airlines">>,
    <<<<"3","0","3","2">>, "United Parcel Service">>,
    <<<<"3","0","3","3">>, "Airborne Express">>,
    <<<<"3","0","3","4">>, "DHL Airways">>,
    <<<<"3","0","3","5">>, "Helicopter Airlines">>,
    <<<<"3","0","3","6">>, "Varig Brazilian Airlines">>,
    <<<<"3","0","3","7">>, "Icelandair">>,
    <<<<"3","0","3","8">>, "Air Malta">>,
    <<<<"3","0","3","9">>, "Egyptian Air">>,
    <<<<"3","0","4","0">>, "Ansett Airlines">>,
    <<<<"3","0","4","1">>, "Pakistan International Airlines">>,
    <<<<"3","0","4","2">>, "Virgin Atlantic Airways">>,
    <<<<"3","0","4","3">>, "Virgin America">>,
    <<<<"3","0","4","4">>, "Spirit Airlines">>,
    <<<<"3","0","4","5">>, "Air Berlin">>,
    <<<<"3","0","4","6">>, "Swiss International Air Lines">>,
    <<<<"3","0","4","7">>, "Turkish Airlines">>,
    <<<<"3","0","4","8">>, "Austrian Airlines Group">>,
    <<<<"3","0","4","9">>, "LOT Polish Airlines">>,
    <<<<"3","0","5","0">>, "Hainan Airlines">>,
    <<<<"3","0","5","1">>, "Air China">>,
    <<<<"3","0","5","2">>, "China Eastern Airlines">>,
    <<<<"3","0","5","3">>, "China Southern Airlines">>,
    <<<<"3","0","5","4">>, "Xiamen Airlines">>,
    <<<<"3","0","5","5">>, "ANA All Nippon Airways">>,
    <<<<"3","0","5","6">>, "Asiana Airlines">>,
    <<<<"3","0","5","7">>, "Cebu Pacific Air">>,
    <<<<"3","0","5","8">>, "IndiGo">>,
    <<<<"3","0","5","9">>, "SpiceJet">>,
    <<<<"3","0","6","0">>, "AirAsia">>,
    <<<<"3","0","6","1">>, "Jetstar Airways">>,
    <<<<"3","0","6","2">>, "Scoot">>,
    <<<<"3","0","6","3">>, "Emirates">>,
    <<<<"3","0","6","4">>, "Etihad Airways">>,
    <<<<"3","0","6","5">>, "Qatar Airways">>,
    <<<<"3","0","6","6">>, "Saudi Arabian Airlines">>,
    <<<<"3","0","6","7">>, "Royal Jordanian">>,
    <<<<"3","0","6","8">>, "EgyptAir">>,
    <<<<"3","0","6","9">>, "South African Airways">>,
    <<<<"3","0","7","0">>, "Kenya Airways">>,
    <<<<"3","0","7","1">>, "Ethiopian Airlines">>,
    <<<<"3","0","7","2">>, "Royal Air Maroc">>,
    <<<<"3","0","7","3">>, "Air Algerie">>,
    <<<<"3","0","7","4">>, "Tunisair">>,
    <<<<"3","0","7","5">>, "Libya Airlines">>,
    <<<<"3","0","7","6">>, "Nigeria Airways">>,
    <<<<"3","0","7","7">>, "Ghana Airways">>,
    <<<<"3","0","7","8">>, "Air Ivoire">>,
    <<<<"3","0","7","9">>, "TAAG Angola Airlines">>,
    <<<<"3","0","8","0">>, "Air Zimbabwe">>,
    <<<<"3","0","8","1">>, "Air Mauritius">>,
    <<<<"3","0","8","2">>, "Air Seychelles">>,
    <<<<"3","0","8","3">>, "Air Madagascar">>,
    <<<<"3","0","8","4">>, "Comair">>,
    <<<<"3","0","8","5">>, "Kulula">>,
    <<<<"3","0","8","6">>, "Mango Airlines">>,
    <<<<"3","0","8","7">>, "FlySafair">>,
    <<<<"3","0","8","8">>, "Air Botswana">>,
    <<<<"3","0","8","9">>, "Air Namibia">>,
    <<<<"3","0","9","0">>, "Precision Air">>,
    <<<<"3","0","9","1">>, "RwandAir">>,
    <<<<"3","0","9","2">>, "Uganda Airlines">>,
    <<<<"3","0","9","3">>, "Fly540">>,
    <<<<"3","0","9","4">>, "Jambojet">>,
    <<<<"3","0","9","5">>, "FastJet">>,
    <<<<"3","0","9","6">>, "Cabo Verde Airlines">>,
    <<<<"3","0","9","7">>, "TACV">>,
    <<<<"3","0","9","8">>, "Air Burkina">>,
    <<<<"3","0","9","9">>, "Air Mali">>,
    <<<<"3","1","0","0">>, "Corsair International">>,
    <<<<"3","1","0","1">>, "Air Austral">>,
    <<<<"3","1","0","2">>, "Air Caledonie International">>,
    <<<<"3","1","0","3">>, "Aircalin">>,
    <<<<"3","1","0","4">>, "Air Moana">>,
    <<<<"3","1","0","5">>, "Air Tahiti Nui">>,
    <<<<"3","1","0","6">>, "French Bee">>,
    <<<<"3","1","0","7">>, "Aigle Azur">>,
    <<<<"3","1","0","8">>, "XL Airways France">>,
    <<<<"3","1","0","9">>, "Transavia France">>,
    <<<<"3","1","1","0">>, "easyJet">>,
    <<<<"3","1","1","1">>, "Ryanair">>,
    <<<<"3","1","1","2">>, "Wizz Air">>,
    <<<<"3","1","1","3">>, "Norwegian Air">>,
    <<<<"3","1","1","4">>, "Pegasus Airlines">>,
    <<<<"3","1","1","5">>, "Sun Express">>,
    <<<<"3","1","1","6">>, "Onur Air">>,
    <<<<"3","1","1","7">>, "AtlasGlobal">>,
    <<<<"3","1","1","8">>, "Corendon Airlines">>,
    <<<<"3","1","1","9">>, "Flynas">>,
    <<<<"3","1","2","0">>, "flydubai">>,
    <<<<"3","1","2","1">>, "Air Arabia">>,
    <<<<"3","1","2","2">>, "Jazeera Airways">>,
    <<<<"3","1","2","3">>, "Kuwait Airways">>,
    <<<<"3","1","2","4">>, "Gulf Air">>,
    <<<<"3","1","2","5">>, "Oman Air">>,
    <<<<"3","1","2","6">>, "SalamAir">>,
    <<<<"3","1","2","7">>, "Nas Air">>,
    <<<<"3","1","2","8">>, "flynas">>,
    <<<<"3","1","2","9">>, "Middle East Airlines">>,
    <<<<"3","1","3","0">>, "Iraqi Airways">>,
    <<<<"3","1","3","1">>, "Iran Air">>,
    <<<<"3","1","3","2">>, "Mahan Air">>,
    <<<<"3","1","3","3">>, "Caspian Airlines">>,
    <<<<"3","1","3","4">>, "Kish Air">>,
    <<<<"3","1","3","5">>, "Taban Airlines">>,
    <<<<"3","1","3","6">>, "Qeshm Air">>,
    <<<<"3","1","3","7">>, "Iran Aseman Airlines">>,
    <<<<"3","1","3","8">>, "Zagros Airlines">>,
    <<<<"3","1","3","9">>, "Pouya Air">>,
    <<<<"3","1","4","0">>, "Varesh Airlines">>,
    <<<<"3","1","4","1">>, "Sepehran Airlines">>,
    <<<<"3","1","4","2">>, "Karun Airlines">>,
    <<<<"3","1","4","3">>, "Safiran Airlines">>,
    <<<<"3","1","4","4">>, "Kishair">>,
    <<<<"3","1","4","5">>, "Iran Air Tours">>,
    <<<<"3","1","4","6">>, "Meraj Airlines">>,
    <<<<"3","1","4","7">>, "Atrak Air">>,
    <<<<"3","1","4","8">>, "Aria Air">>,
    <<<<"3","1","4","9">>, "Blue Airlines">>,
    <<<<"3","1","5","0">>, "Fars Air Qeshm">>,
    <<<<"3","1","5","1">>, "Kaspian Airlines">>,
    <<<<"3","1","5","2">>, "Naft Airlines">>,
    <<<<"3","1","5","3">>, "Pars Air">>,
    <<<<"3","1","5","4">>, "Payam Air">>,
    <<<<"3","1","5","5">>, "Saha Airlines">>,
    <<<<"3","1","5","6">>, "Sama Airlines">>,
    <<<<"3","1","5","7">>, "Taftan Airlines">>,
    <<<<"3","1","5","8">>, "Tehran Air">>,
    <<<<"3","1","5","9">>, "Trigana Air">>,
    <<<<"3","1","6","0">>, "Wings Air">>,
    <<<<"3","1","6","1">>, "Indonesia AirAsia">>,
    <<<<"3","1","6","2">>, "Lion Air">>,
    <<<<"3","1","6","3">>, "Sriwijaya Air">>,
    <<<<"3","1","6","4">>, "Garuda Indonesia">>,
    <<<<"3","1","6","5">>, "Citilink">>,
    <<<<"3","1","6","6">>, "Batik Air">>,
    <<<<"3","1","6","7">>, "NAM Air">>,
    <<<<"3","1","6","8">>, "Super Air Jet">>,
    <<<<"3","1","6","9">>, "TransNusa">>,
    <<<<"3","1","7","0">>, "Kalstar Aviation">>,
    <<<<"3","1","7","1">>, "Xpress Air">>,
    <<<<"3","1","7","2">>, "Indonesia Air Transport">>,
    <<<<"3","1","7","3">>, "Cardig Air">>,
    <<<<"3","1","7","4">>, "Sky Aviation">>,
    <<<<"3","1","7","5">>, "Aviastar Mandiri">>,
    <<<<"3","1","7","6">>, "Tri MG Intra Asia Airlines">>,
    <<<<"3","1","7","7">>, "Express Air">>,
    <<<<"3","1","7","8">>, "My Indo Airlines">>,
    <<<<"3","1","7","9">>, "Mandala Airlines">>,
    <<<<"3","1","8","0">>, "Adam Air">>,
    <<<<"3","1","8","1">>, "Bouraq Indonesia Airlines">>,
    <<<<"3","1","8","2">>, "Jatayu Airlines">>,
    <<<<"3","1","8","3">>, "Dirgantara Air Service">>,
    <<<<"3","1","8","4">>, "Republic Express Airlines">>,
    <<<<"3","1","8","5">>, "Travel Express Aviation Service">>,
    <<<<"3","1","8","6">>, "Asian One Air">>,
    <<<<"3","1","8","7">>, "Premiair">>,
    <<<<"3","1","8","8">>, "Metro Batavia">>,
    <<<<"3","1","8","9">>, "Travira Air">>,
    <<<<"3","1","9","0">>, "Denim Air">>,
    <<<<"3","1","9","1">>, "Riau Airlines">>,
    <<<<"3","1","9","2">>, "Manunggal Air Service">>,
    <<<<"3","1","9","3">>, "Indonesia Air Asia X">>,
    <<<<"3","1","9","4">>, "Wings Abadi Airlines">>,
    <<<<"3","1","9","5">>, "Airfast Indonesia">>,
    <<<<"3","1","9","6">>, "Associated Mission Aviation">>,
    <<<<"3","1","9","7">>, "Pelita Air Service">>,
    <<<<"3","1","9","8">>, "Jhonlin Air Transport">>,
    <<<<"3","1","9","9">>, "Alfa Trans Dirgantara">>,
    <<<<"3","2","0","0">>, "Mimika Air">>,
    <<<<"3","2","0","1">>, "Susi Air">>,
    <<<<"3","2","0","2">>, "Eastindo">>,
    <<<<"3","2","0","3">>, "Nusantara Air Charter">>,
    <<<<"3","2","0","4">>, "Smart Aviation">>,
    <<<<"3","2","0","5">>, "Chartis Cargo">>,
    <<<<"3","2","0","6">>, "Indonesian Air Transport">>,
    <<<<"3","2","0","7">>, "Transwisata Prima Aviation">>,
    <<<<"3","2","0","8">>, "Explore Jet">>,
    <<<<"3","2","0","9">>, "Deraya Air Taxi">>,
    <<<<"3","2","1","0">>, "Komala Indonesia">>,
    <<<<"3","2","1","1">>, "Wings Air">>,
    <<<<"3","2","1","2">>, "Citilink Indonesia">>,
    <<<<"3","2","1","3">>, "Express Transportasi Antarbenua">>,
    <<<<"3","2","1","4">>, "Travel Express Aviation Services">>,
    <<<<"3","2","1","5">>, "Garuda Indonesia">>,
    <<<<"3","2","1","6">>, "Lion Airlines">>,
    <<<<"3","2","1","7">>, "Sriwijaya Air">>,
    <<<<"3","2","1","8">>, "Indonesia AirAsia">>,
    <<<<"3","2","1","9">>, "Batik Air">>,
    <<<<"3","2","2","0">>, "NAM Air">>,
    <<<<"3","2","2","1">>, "Super Air Jet">>,
    <<<<"3","2","2","2">>, "TransNusa">>,
    <<<<"3","2","2","3">>, "Kalstar Aviation">>,
    <<<<"3","2","2","4">>, "Xpress Air">>,
    <<<<"3","2","2","5">>, "Indonesia Air Transport">>,
    <<<<"3","2","2","6">>, "Cardig Air">>,
    <<<<"3","2","2","7">>, "Sky Aviation">>,
    <<<<"3","2","2","8">>, "Aviastar Mandiri">>,
    <<<<"3","2","2","9">>, "Tri MG Intra Asia Airlines">>,
    <<<<"3","2","3","0">>, "Express Air">>,
    <<<<"3","2","3","1">>, "My Indo Airlines">>,
    <<<<"3","2","3","2">>, "Mandala Airlines">>,
    <<<<"3","2","3","3">>, "Adam Air">>,
    <<<<"3","2","3","4">>, "Bouraq Indonesia Airlines">>,
    <<<<"3","2","3","5">>, "Jatayu Airlines">>,
    <<<<"3","2","3","6">>, "Dirgantara Air Service">>,
    <<<<"3","2","3","7">>, "Republic Express Airlines">>,
    <<<<"3","2","3","8">>, "Travel Express Aviation Service">>,
    <<<<"3","2","3","9">>, "Asian One Air">>,
    <<<<"3","2","4","0">>, "Premiair">>,
    <<<<"3","2","4","1">>, "Metro Batavia">>,
    <<<<"3","2","4","2">>, "Travira Air">>,
    <<<<"3","2","4","3">>, "Denim Air">>,
    <<<<"3","2","4","4">>, "Riau Airlines">>,
    <<<<"3","2","4","5">>, "Manunggal Air Service">>,
    <<<<"3","2","4","6">>, "Indonesia Air Asia X">>,
    <<<<"3","2","4","7">>, "Wings Abadi Airlines">>,
    <<<<"3","2","4","8">>, "Airfast Indonesia">>,
    <<<<"3","2","4","9">>, "Associated Mission Aviation">>,
    <<<<"3","2","5","0">>, "Pelita Air Service">>,
    <<<<"3","2","5","1">>, "Jhonlin Air Transport">>,
    <<<<"3","2","5","2">>, "Alfa Trans Dirgantara">>,
    <<<<"3","2","5","3">>, "Mimika Air">>,
    <<<<"3","2","5","4">>, "Susi Air">>,
    <<<<"3","2","5","5">>, "Eastindo">>,
    <<<<"3","2","5","6">>, "Nusantara Air Charter">>,
    <<<<"3","2","5","7">>, "Smart Aviation">>,
    <<<<"3","2","5","8">>, "Chartis Cargo">>,
    <<<<"3","2","5","9">>, "Indonesian Air Transport">>,
    <<<<"3","2","6","0">>, "Transwisata Prima Aviation">>,
    <<<<"3","2","6","1">>, "Explore Jet">>,
    <<<<"3","2","6","2">>, "Deraya Air Taxi">>,
    <<<<"3","2","6","3">>, "Komala Indonesia">>,
    <<<<"3","2","6","4">>, "Wings Air">>,
    <<<<"3","2","6","5">>, "Citilink Indonesia">>,
    <<<<"3","2","6","6">>, "Express Transportasi Antarbenua">>,
    <<<<"3","2","6","7">>, "Travel Express Aviation Services">>,
    <<<<"3","2","6","8">>, "Garuda Indonesia">>,
    <<<<"3","2","6","9">>, "Lion Airlines">>,
    <<<<"3","2","7","0">>, "Sriwijaya Air">>,
    <<<<"3","2","7","1">>, "Indonesia AirAsia">>,
    <<<<"3","2","7","2">>, "Batik Air">>,
    <<<<"3","2","7","3">>, "NAM Air">>,
    <<<<"3","2","7","4">>, "Super Air Jet">>,
    <<<<"3","2","7","5">>, "TransNusa">>,
    <<<<"3","2","7","6">>, "Kalstar Aviation">>,
    <<<<"3","2","7","7">>, "Xpress Air">>,
    <<<<"3","2","7","8">>, "Indonesia Air Transport">>,
    <<<<"3","2","7","9">>, "Cardig Air">>,
    <<<<"3","2","8","0">>, "Sky Aviation">>,
    <<<<"3","2","8","1">>, "Aviastar Mandiri">>,
    <<<<"3","2","8","2">>, "Tri MG Intra Asia Airlines">>,
    <<<<"3","2","8","3">>, "Express Air">>,
    <<<<"3","2","8","4">>, "My Indo Airlines">>,
    <<<<"3","2","8","5">>, "Mandala Airlines">>,
    <<<<"3","2","8","6">>, "Adam Air">>,
    <<<<"3","2","8","7">>, "Bouraq Indonesia Airlines">>,
    <<<<"3","2","8","8">>, "Jatayu Airlines">>,
    <<<<"3","2","8","9">>, "Dirgantara Air Service">>,
    <<<<"3","2","9","0">>, "Republic Express Airlines">>,
    <<<<"3","2","9","1">>, "Travel Express Aviation Service">>,
    <<<<"3","2","9","2">>, "Asian One Air">>,
    <<<<"3","2","9","3">>, "Premiair">>,
    <<<<"3","2","9","4">>, "Metro Batavia">>,
    <<<<"3","2","9","5">>, "Travira Air">>,
    <<<<"3","2","9","6">>, "Denim Air">>,
    <<<<"3","2","9","7">>, "Riau Airlines">>,
    <<<<"3","2","9","8">>, "Manunggal Air Service">>,
    <<<<"3","2","9","9">>, "Indonesia Air Asia X">>,
    <<<<"3","3","5","1">>, "Alamo Rent A Car">>,
    <<<<"3","3","5","2">>, "Avis">>,
    <<<<"3","3","5","3">>, "Budget Rent-A-Car">>,
    <<<<"3","3","5","4">>, "Discount Car Rental">>,
    <<<<"3","3","5","5">>, "Hertz">>,
    <<<<"3","3","5","6">>, "National Car Rental">>,
    <<<<"3","3","5","7">>, "Payless Car Rental">>,
    <<<<"3","3","5","9">>, "Enterprise Rent-A-Car">>,
    <<<<"3","3","6","0">>, "Dollar Rent A Car">>,
    <<<<"3","3","6","1">>, "Europcar">>,
    <<<<"3","3","6","2">>, "Sixt Rent A Car">>,
    <<<<"3","3","6","3">>, "Thrifty Car Rental">>,
    <<<<"3","3","6","4">>, "Zipcar">>,
    <<<<"3","3","6","5">>, "Turo">>,
    <<<<"3","3","6","6">>, "RelayRides">>,
    <<<<"3","3","6","7">>, "Car2Go">>,
    <<<<"3","3","6","8">>, "DriveNow">>,
    <<<<"3","3","6","9">>, "Maven">>,
    <<<<"3","3","7","0">>, "ReachNow">>,
    <<<<"3","3","7","1">>, "Book by Cadillac">>,
    <<<<"3","3","7","2">>, "Fair">>,
    <<<<"3","3","7","3">>, "Getaround">>,
    <<<<"3","3","7","4">>, "HyreCar">>,
    <<<<"3","3","7","5">>, "Spinlister">>,
    <<<<"3","3","7","6">>, "JustShareIt">>,
    <<<<"3","3","7","7">>, "Outdoorsy">>,
    <<<<"3","3","7","8">>, "RVshare">>,
    <<<<"3","3","7","9">>, "Cruise America">>,
    <<<<"3","3","8","0">>, "El Monte RV">>,
    <<<<"3","3","8","1">>, "Road Bear RV">>,
    <<<<"3","3","8","2">>, "Apollo RV">>,
    <<<<"3","3","8","3">>, "Mighty Campers">>,
    <<<<"3","3","8","4">>, "Jucy Rentals">>,
    <<<<"3","3","8","5">>, "Escape Campervans">>,
    <<<<"3","3","8","6">>, "Lost Campers">>,
    <<<<"3","3","8","7">>, "Wicked Campers">>,
    <<<<"3","3","8","8">>, "Britz">>,
    <<<<"3","3","8","9">>, "Maui">>,
    <<<<"3","3","9","0">>, "Cheapa Campa">>,
    <<<<"3","3","9","1">>, "Hippie Camper">>,
    <<<<"3","3","9","2">>, "Spaceships Rentals">>,
    <<<<"3","3","9","3">>, "Travellers Autobarn">>,
    <<<<"3","3","9","4">>, "Backpacker Campervans">>,
    <<<<"3","3","9","5">>, "Lucky Rentals">>,
    <<<<"3","3","9","6">>, "East Coast Car Rentals">>,
    <<<<"3","3","9","7">>, "Redspot Car Rentals">>,
    <<<<"3","3","9","8">>, "Alpha Car Hire">>,
    <<<<"3","3","9","9">>, "Ace Rental Cars">>,
    <<<<"3","5","0","1">>, "Holiday Inns, Holiday Inn Express">>,
    <<<<"3","5","0","2">>, "Best Western">>,
    <<<<"3","5","0","3">>, "Sheraton">>,
    <<<<"3","5","0","4">>, "Hilton">>,
    <<<<"3","5","0","5">>, "Forte Hotels">>,
    <<<<"3","5","0","6">>, "Golden Tulip Hotels">>,
    <<<<"3","5","0","7">>, "Friendship Inns">>,
    <<<<"3","5","0","8">>, "Quality Inns, Hotels, and Suites">>,
    <<<<"3","5","0","9">>, "Marriott">>,
    <<<<"3","5","1","0">>, "Days Inn">>,
    <<<<"3","5","1","1">>, "Arabella Hotels">>,
    <<<<"3","5","1","2">>, "Inter-Continental Hotels">>,
    <<<<"3","5","1","3">>, "Westin Hotels">>,
    <<<<"3","5","1","4">>, "Amerisuites">>,
    <<<<"3","5","1","5">>, "Rodeway Inn">>,
    <<<<"3","5","1","6">>, "La Quinta Motor Inns">>,
    <<<<"3","5","1","7">>, "Americana Hotels">>,
    <<<<"3","5","1","8">>, "Sol Hotels">>,
    <<<<"3","5","1","9">>, "Pullman International Hotels">>,
    <<<<"3","5","2","0">>, "Meridien Hotels">>,
    <<<<"3","5","2","1">>, "Cham pace Hotels">>,
    <<<<"3","5","2","2">>, "Granding Hotels International">>,
    <<<<"3","5","2","3">>, "Penta Hotels">>,
    <<<<"3","5","2","4">>, "Hungar Hotels">>,
    <<<<"3","5","2","5">>, "Husa Hotels">>,
    <<<<"3","5","2","6">>, "Accor Hotels">>,
    <<<<"3","5","2","7">>, "Balladins Hotels">>,
    <<<<"3","5","2","8">>, "Red Roof Inns">>,
    <<<<"3","5","2","9">>, "Imperial London Hotels">>,
    <<<<"3","5","3","0">>, "Embassy Suites">>,
    <<<<"3","5","3","1">>, "Penta Hotels">>,
    <<<<"3","5","3","2">>, "Dorint Hotels">>,
    <<<<"3","5","3","3">>, "Arcade Hotels">>,
    <<<<"3","5","3","4">>, "Loews Hotels">>,
    <<<<"3","5","3","5">>, "Forum Hotels">>,
    <<<<"3","5","3","6">>, "Hospitality International">>,
    <<<<"3","5","3","7">>, "Shangri-La International">>,
    <<<<"3","5","3","8">>, "Thistle Hotels">>,
    <<<<"3","5","3","9">>, "Summit International">>,
    <<<<"3","5","4","0">>, "Hyatt Hotels and Resorts">>,
    <<<<"3","5","4","1">>, "Sofitel Hotels">>,
    <<<<"3","5","4","2">>, "Novotel Hotels">>,
    <<<<"3","5","4","3">>, "Steigenberger Hotels">>,
    <<<<"3","5","4","4">>, "Econo Lodge">>,
    <<<<"3","5","4","5">>, "Choice Hotels">>,
    <<<<"3","5","4","6">>, "Clarion Hotels">>,
    <<<<"3","5","4","7">>, "Comfort Inn">>,
    <<<<"3","5","4","8">>, "Quality International">>,
    <<<<"3","5","4","9">>, "Hotel Ibis">>,
    <<<<"3","5","5","0">>, "Summit Hotels">>,
    <<<<"3","5","5","1">>, "Homewood Suites">>,
    <<<<"3","5","5","2">>, "Embassy Suites Hotels">>,
    <<<<"3","5","5","3">>, "Hampton Inn">>,
    <<<<"3","5","5","4">>, "Courtyard by Marriott">>,
    <<<<"3","5","5","5">>, "Compri Hotels">>,
    <<<<"3","5","5","6">>, "Stouffer Hotels">>,
    <<<<"3","5","5","7">>, "Hilton International">>,
    <<<<"3","5","5","8">>, "Concorde Hotels">>,
    <<<<"3","5","5","9">>, "Hotel Mercure">>,
    <<<<"3","5","6","0">>, "Pannonia Hotels">>,
    <<<<"3","5","6","1">>, "Hungar Hotels">>,
    <<<<"3","5","6","2">>, "IBUSZ Hotels">>,
    <<<<"3","5","6","3">>, "Reso Hotels">>,
    <<<<"3","5","6","4">>, "Hotel Volksturm">>,
    <<<<"3","5","6","5">>, "Hotel Kempinski">>,
    <<<<"3","5","6","6">>, "Hotel Okura">>,
    <<<<"3","5","6","7">>, "Royal Hotels">>,
    <<<<"3","5","6","8">>, "Four Seasons Hotels">>,
    <<<<"3","5","6","9">>, "Oberoi Hotels">>,
    <<<<"3","5","7","0">>, "Hotel Taipei">>,
    <<<<"3","5","7","1">>, "Relais Hotels">>,
    <<<<"3","5","7","2">>, "Hotel Breakers">>,
    <<<<"3","5","7","3">>, "Hotel Admiral">>,
    <<<<"3","5","7","4">>, "Best Eastern Hotels">>,
    <<<<"3","5","7","5">>, "Great Eastern Hotels">>,
    <<<<"3","5","7","6">>, "Tree Tops Hotels">>,
    <<<<"3","5","7","7">>, "Sandman Inns">>,
    <<<<"3","5","7","8">>, "venture Inns">>,
    <<<<"3","5","7","9">>, "Baymont Inns">>,
    <<<<"3","5","8","0">>, "Midway Motor Lodge">>,
    <<<<"3","5","8","1">>, "Red Carpet Inn">>,
    <<<<"3","5","8","2">>, "Imperial 400 Motor Inn">>,
    <<<<"3","5","8","3">>, "Canadian Pacific Hotels">>,
    <<<<"3","5","8","4">>, "Welcomed Group Hotels">>,
    <<<<"3","5","8","5">>, "Hotel Taj">>,
    <<<<"3","5","8","6">>, "Auberge des Gouverneurs">>,
    <<<<"3","5","8","7">>, "Hotel Gouverneur">>,
    <<<<"3","5","8","8">>, "Delta Hotels">>,
    <<<<"3","5","8","9">>, "Paradise stream Resort">>,
    <<<<"3","5","9","0">>, "Hotel la Sapinette">>,
    <<<<"3","5","9","1">>, "Hotel Quebec">>,
    <<<<"3","5","9","2">>, "Hotel Asia">>,
    <<<<"3","5","9","3">>, "Hotel Polo">>,
    <<<<"3","5","9","4">>, "Hotel Indreni">>,
    <<<<"3","5","9","5">>, "Mount Everest Hotel">>,
    <<<<"3","5","9","6">>, "Hotel Narayani">>,
    <<<<"3","5","9","7">>, "Hotel Taragaon">>,
    <<<<"3","5","9","8">>, "Hotel Malla">>,
    <<<<"3","5","9","9">>, "Hotel Himalaya">>,
    <<<<"4","0","1","1">>, "Railroads">>,
    <<<<"4","1","1","1">>, "Local/Suburban Commuter Passenger Transportation">>,
    <<<<"4","1","1","2">>, "Passenger Railway">>,
    <<<<"4","1","1","9">>, "Ambulance Services">>,
    <<<<"4","1","2","1">>, "Taxicabs and Limousines">>,
    <<<<"4","1","3","1">>, "Bus Lines">>,
    <<<<"4","2","1","4">>, "Motor Freight Carriers and Trucking - Local and Long Distance">>,
    <<<<"4","2","1","5">>, "Courier Services - Air and Ground">>,
    <<<<"4","2","2","5">>, "Public Warehousing and Storage - Farm Products, Refrigerated Goods and Household Goods">>,
    <<<<"4","4","1","1">>, "Steamship and Cruise Lines">>,
    <<<<"4","4","5","7">>, "Boat Rentals and Leases">>,
    <<<<"4","4","6","8">>, "Marinas, Service and Supplies">>,
    <<<<"4","5","1","1">>, "Airlines and Air Carriers - Not Elsewhere Classified">>,
    <<<<"4","5","8","2">>, "Airports, Flying Fields and Airport Terminals">>,
    <<<<"4","7","2","2">>, "Travel Agencies and Tour Operators">>,
    <<<<"4","7","2","3">>, "TUI Travel - Germany">>,
    <<<<"4","7","2","4">>, "Thomas Cook Travel - Germany">>,
    <<<<"4","7","2","5">>, "American Express Travel Service">>,
    <<<<"4","7","2","6">>, "Carlson Wagonlit Travel">>,
    <<<<"4","7","2","7">>, "Rosenbluth International">>,
    <<<<"4","7","2","8">>, "Welcome Group - India">>,
    <<<<"4","7","2","9">>, "Staff Tours - Hong Kong">>,
    <<<<"4","7","3","0">>, "Trafalgar Tours">>,
    <<<<"4","7","3","1">>, "Gray Line Bus Tours">>,
    <<<<"4","7","3","2">>, "Creative Tours">>,
    <<<<"4","7","3","3">>, "Cosmos/Globus Gateway">>,
    <<<<"4","7","3","4">>, "Tourico Holidays">>,
    <<<<"4","7","3","5">>, "Japan Creative Tours">>,
    <<<<"4","7","3","6">>, "Brendan Tours">>,
    <<<<"4","7","3","7">>, "Collette Tours">>,
    <<<<"4","7","3","8">>, "DER Travel Service">>,
    <<<<"4","7","3","9">>, "Yankee Holidays">>,
    <<<<"4","7","4","0">>, "Grand Circle Travel">>,
    <<<<"4","7","4","1">>, "Maupintour">>,
    <<<<"4","7","4","2">>, "CIE Tours International">>,
    <<<<"4","7","4","3">>, "Korean Air Holidays">>,
    <<<<"4","7","4","4">>, "Siesta Tours">>,
    <<<<"4","7","4","5">>, "Virgin Holidays">>,
    <<<<"4","7","4","6">>, "British Airways Holidays">>,
    <<<<"4","7","4","7">>, "American Airlines Vacations">>,
    <<<<"4","7","4","8">>, "Continental Airlines Vacations">>,
    <<<<"4","7","4","9">>, "Delta Vacations">>,
    <<<<"4","7","5","0">>, "United Airlines Vacations">>,
    <<<<"4","7","5","1">>, "Funway Holidays">>,
    <<<<"4","7","5","2">>, "Liberty Travel">>,
    <<<<"4","7","5","3">>, "Pleasant Holidays">>,
    <<<<"4","7","5","4">>, "Club Med Sales">>,
    <<<<"4","7","5","5">>, "GOGO Tours">>,
    <<<<"4","7","5","6">>, "Globus Gateway">>,
    <<<<"4","7","5","7">>, "Cosmos Tours">>,
    <<<<"4","7","5","8">>, "Insight Vacations">>,
    <<<<"4","7","5","9">>, "Trafalgar Tours">>,
    <<<<"4","7","6","0">>, "Contiki Holidays">>,
    <<<<"4","7","6","1">>, "Top Deck Tours">>,
    <<<<"4","7","6","2">>, "Busabout">>,
    <<<<"4","7","6","3">>, "Stray Travel">>,
    <<<<"4","7","6","4">>, "Kiwi Experience">>,
    <<<<"4","7","6","5">>, "Flying Kiwi">>,
    <<<<"4","7","6","6">>, "Wayward Bus">>,
    <<<<"4","7","6","7">>, "Haggis Adventures">>,
    <<<<"4","7","6","8">>, "MacBackpackers">>,
    <<<<"4","7","6","9">>, "Wild Rover Tours">>,
    <<<<"4","7","7","0">>, "Shamrocker Adventures">>,
    <<<<"4","7","7","1">>, "Paddywagon Tours">>,
    <<<<"4","7","7","2">>, "Irish Day Tours">>,
    <<<<"4","7","7","3">>, "Rabbie's Trail Burners">>,
    <<<<"4","7","7","4">>, "Timbuktu Travel">>,
    <<<<"4","7","7","5">>, "Heart of Scotland Tours">>,
    <<<<"4","7","7","6">>, "Jacobite Tours">>,
    <<<<"4","7","7","7">>, "Highland Explorer Tours">>,
    <<<<"4","7","7","8">>, "Citylink">>,
    <<<<"4","7","7","9">>, "National Express">>,
    <<<<"4","7","8","0">>, "Megabus">>,
    <<<<"4","7","8","1">>, "Coach USA">>,
    <<<<"4","7","8","2">>, "Peter Pan Bus Lines">>,
    <<<<"4","7","8","3">>, "Adirondack Trailways">>,
    <<<<"4","7","8","4">>, "Carolina Trailways">>,
    <<<<"4","7","8","5">>, "Indian Trails">>,
    <<<<"4","7","8","6">>, "Jefferson Lines">>,
    <<<<"4","7","8","7">>, "New Jersey Transit">>,
    <<<<"4","7","8","8">>, "Lakefront Lines">>,
    <<<<"4","7","8","9">>, "Vermont Transit">>,
    <<<<"4","7","9","0">>, "Concord Coach Lines">>,
    <<<<"4","7","9","1">>, "C&J Trailways">>,
    <<<<"4","7","9","2">>, "Bonanza Bus Lines">>,
    <<<<"4","7","9","3">>, "Plymouth & Brockton">>,
    <<<<"4","7","9","4">>, "Southeastern Stages">>,
    <<<<"4","7","9","5">>, "Tornado Bus">>,
    <<<<"4","7","9","6">>, "El Paso-Los Angeles Limousine Express">>,
    <<<<"4","7","9","7">>, "Crucero Express">>,
    <<<<"4","7","9","8">>, "Omnibus Mexicanos">>,
    <<<<"4","7","9","9">>, "Transportes del Norte">>,
    <<<<"4","8","1","2">>, "Telecommunication Equipment and Telephone Sales">>,
    <<<<"4","8","1","4">>, "Telecommunication Services">>,
    <<<<"4","8","1","5">>, "Monthly Summary Telephone Charges">>,
    <<<<"4","8","1","6">>, "Computer Network Services">>,
    <<<<"4","8","2","1">>, "Telegraph Services">>,
    <<<<"4","8","2","9">>, "Wires, Money Orders - Not Elsewhere Classified">>,
    <<<<"4","9","0","0">>, "Utilities - Electric, Gas, Water, and Sanitary">>,
    <<<<"5","0","1","3">>, "Motor Vehicle Supplies and New Parts">>,
    <<<<"5","0","2","1">>, "Office and Commercial Furniture">>,
    <<<<"5","0","3","9">>, "Construction Materials - Not Elsewhere Classified">>,
    <<<<"5","0","4","4">>, "Office, Photographic, Photocopy and Microfilm Equipment">>,
    <<<<"5","0","4","5">>, "Computers, Computer Peripheral Equipment - Not Elsewhere Classified">>,
    <<<<"5","0","4","6">>, "Commercial Equipment - Not Elsewhere Classified">>,
    <<<<"5","0","4","7">>, "Medical, Dental, Ophthalmic and Hospital Equipment and Supplies">>,
    <<<<"5","0","5","1">>, "Metal Service Centers and Offices">>,
    <<<<"5","0","6","5">>, "Electrical Parts and Equipment">>,
    <<<<"5","0","7","2">>, "Hardware, Equipment and Supplies">>,
    <<<<"5","0","7","4">>, "Plumbing and Heating Equipment and Supplies">>,
    <<<<"5","0","8","5">>, "Industrial Supplies - Not Elsewhere Classified">>,
    <<<<"5","0","9","4">>, "Precious Stones and Metals, Watches and Jewelry">>,
    <<<<"5","0","9","9">>, "Durable Goods - Not Elsewhere Classified">>,
    <<<<"5","1","1","1">>, "Stationery, Office Supplies, Printing and Writing Paper">>,
    <<<<"5","1","2","2">>, "Drugs, Drug Proprietaries and Druggist's Sundries">>,
    <<<<"5","1","3","1">>, "Piece Goods, Notions and Other Dry Goods">>,
    <<<<"5","1","3","7">>, "Uniforms, Commercial Clothing">>,
    <<<<"5","1","3","9">>, "Commercial Footwear">>,
    <<<<"5","1","6","9">>, "Chemicals and Allied Products - Not Elsewhere Classified">>,
    <<<<"5","1","7","2">>, "Petroleum and Petroleum Products">>,
    <<<<"5","1","9","2">>, "Books, Periodicals and Newspapers">>,
    <<<<"5","1","9","3">>, "Florists' Supplies, Nursery Stock and Flowers">>,
    <<<<"5","1","9","8">>, "Paints, Varnishes and Supplies">>,
    <<<<"5","1","9","9">>, "Non-durable Goods - Not Elsewhere Classified">>,
    <<<<"5","2","0","0">>, "Home Supply Warehouse Stores">>,
    <<<<"5","2","1","1">>, "Lumber and Building Materials Stores">>,
    <<<<"5","2","3","1">>, "Paint, Glass and Wallpaper Stores">>,
    <<<<"5","2","5","1">>, "Hardware Stores">>,
    <<<<"5","2","6","1">>, "Nurseries, Lawn and Garden Supply Stores">>,
    <<<<"5","2","7","1">>, "Mobile Home Dealers">>,
    <<<<"5","3","0","0">>, "Wholesale Clubs">>,
    <<<<"5","3","0","9">>, "Duty Free Stores">>,
    <<<<"5","3","1","0">>, "Discount Stores">>,
    <<<<"5","3","1","1">>, "Department Stores">>,
    <<<<"5","3","3","1">>, "Variety Stores">>,
    <<<<"5","3","9","9">>, "Miscellaneous General Merchandise">>,
    <<<<"5","4","1","1">>, "Grocery Stores, Supermarkets">>,
    <<<<"5","4","2","2">>, "Freezer and Locker Meat Provisioners">>,
    <<<<"5","4","4","1">>, "Candy, Nut and Confectionery Stores">>,
    <<<<"5","4","5","1">>, "Dairy Products Stores">>,
    <<<<"5","4","6","2">>, "Bakeries">>,
    <<<<"5","4","9","9">>, "Miscellaneous Food Stores - Convenience Stores and Specialty Markets">>,
    <<<<"5","5","1","1">>, "Car and Truck Dealers (New and Used) Sales, Service, Repairs Parts and Leasing">>,
    <<<<"5","5","2","1">>, "Car and Truck Dealers (Used Only) Sales, Service, Repairs Parts and Leasing">>,
    <<<<"5","5","3","1">>, "Auto and Home Supply Stores">>,
    <<<<"5","5","3","2">>, "Automotive Tire Stores">>,
    <<<<"5","5","3","3">>, "Automotive Parts and Accessories Stores">>,
    <<<<"5","5","4","1">>, "Service Stations (with or without ancillary services)">>,
    <<<<"5","5","4","2">>, "Automated Fuel Dispensers">>,
    <<<<"5","5","5","1">>, "Boat Dealers">>,
    <<<<"5","5","6","1">>, "Camper, Recreational and Utility Trailer Dealers">>,
    <<<<"5","5","7","1">>, "Motorcycle Shops and Dealers">>,
    <<<<"5","5","9","2">>, "Motor Homes Dealers">>,
    <<<<"5","5","9","8">>, "Snowmobile Dealers">>,
    <<<<"5","5","9","9">>, "Miscellaneous Automotive, Aircraft and Farm Equipment Dealers - Not Elsewhere Classified">>,
    <<<<"5","6","1","1">>, "Men's and Boys' Clothing and Accessory Stores">>,
    <<<<"5","6","2","1">>, "Women's Ready-to-Wear Stores">>,
    <<<<"5","6","3","1">>, "Women's Accessory and Specialty Shops">>,
    <<<<"5","6","4","1">>, "Children's and Infants' Wear Stores">>,
    <<<<"5","6","5","1">>, "Family Clothing Stores">>,
    <<<<"5","6","5","5">>, "Sports and Riding Apparel Stores">>,
    <<<<"5","6","6","1">>, "Shoe Stores">>,
    <<<<"5","6","8","1">>, "Furriers and Fur Shops">>,
    <<<<"5","6","9","1">>, "Men's and Women's Clothing Stores">>,
    <<<<"5","6","9","7">>, "Tailors, Alterations">>,
    <<<<"5","6","9","8">>, "Wig and Toupee Stores">>,
    <<<<"5","6","9","9">>, "Miscellaneous Apparel and Accessory Shops">>,
    <<<<"5","7","1","2">>, "Furniture, Home Furnishings and Equipment Stores and Manufacturers, Except Appliances">>,
    <<<<"5","7","1","3">>, "Floor Covering Stores">>,
    <<<<"5","7","1","4">>, "Drapery, Window Covering and Upholstery Stores">>,
    <<<<"5","7","1","8">>, "Fireplace, Fireplace Screens and Accessories Stores">>,
    <<<<"5","7","1","9">>, "Miscellaneous Home Furnishing Specialty Stores">>,
    <<<<"5","7","2","2">>, "Household Appliance Stores">>,
    <<<<"5","7","3","2">>, "Electronics Stores">>,
    <<<<"5","7","3","3">>, "Music Stores - Musical Instruments, Pianos and Sheet Music">>,
    <<<<"5","7","3","4">>, "Computer Software Stores">>,
    <<<<"5","7","3","5">>, "Record Stores">>,
    <<<<"5","8","1","1">>, "Caterers">>,
    <<<<"5","8","1","2">>, "Eating Places and Restaurants">>,
    <<<<"5","8","1","3">>, "Drinking Places (Alcoholic Beverages) - Bars, Taverns, Nightclubs, Cocktail Lounges and Discotheques">>,
    <<<<"5","8","1","4">>, "Fast Food Restaurants">>,
    <<<<"5","9","1","2">>, "Drug Stores and Pharmacies">>,
    <<<<"5","9","2","1">>, "Package Stores - Beer, Wine and Liquor">>,
    <<<<"5","9","3","1">>, "Used Merchandise and Secondhand Stores">>,
    <<<<"5","9","3","2">>, "Antique Shops">>,
    <<<<"5","9","3","3">>, "Pawn Shops">>,
    <<<<"5","9","3","5">>, "Wrecking and Salvage Yards">>,
    <<<<"5","9","3","7">>, "Antique Reproductions">>,
    <<<<"5","9","4","0">>, "Bicycle Shops">>,
    <<<<"5","9","4","1">>, "Sporting Goods Stores">>,
    <<<<"5","9","4","2">>, "Book Stores">>,
    <<<<"5","9","4","3">>, "Stationery Stores, Office and School Supply Stores">>,
    <<<<"5","9","4","4">>, "Jewelry Stores, Watches, Clocks and Silverware Stores">>,
    <<<<"5","9","4","5">>, "Toy and Hobby Shops">>,
    <<<<"5","9","4","6">>, "Camera and Photographic Supply Stores">>,
    <<<<"5","9","4","7">>, "Gift, Card, Novelty and Souvenir Shops">>,
    <<<<"5","9","4","8">>, "Luggage and Leather Goods Stores">>,
    <<<<"5","9","4","9">>, "Sewing, Needlework, Fabric and Piece Goods Stores">>,
    <<<<"5","9","5","0">>, "Glassware, Crystal Stores">>,
    <<<<"5","9","6","0">>, "Direct Marketing - Insurance Services">>,
    <<<<"5","9","6","2">>, "Direct Marketing - Travel Related Arrangement Services">>,
    <<<<"5","9","6","3">>, "Door-to-Door Sales">>,
    <<<<"5","9","6","4">>, "Direct Marketing - Catalog Merchant">>,
    <<<<"5","9","6","5">>, "Direct Marketing - Combination Catalog and Retail Merchant">>,
    <<<<"5","9","6","6">>, "Direct Marketing - Outbound Telemarketing Merchant">>,
    <<<<"5","9","6","7">>, "Direct Marketing - Inbound Telemarketing Merchant">>,
    <<<<"5","9","6","8">>, "Direct Marketing - Continuity/Subscription Merchants">>,
    <<<<"5","9","6","9">>, "Direct Marketing - Not Elsewhere Classified">>,
    <<<<"5","9","7","0">>, "Artist's Supply and Craft Shops">>,
    <<<<"5","9","7","1">>, "Art Dealers and Galleries">>,
    <<<<"5","9","7","2">>, "Stamp and Coin Stores">>,
    <<<<"5","9","7","3">>, "Religious Goods Stores">>,
    <<<<"5","9","7","5">>, "Hearing Aids Sales and Supplies">>,
    <<<<"5","9","7","6">>, "Orthopedic Goods - Prosthetic Devices">>,
    <<<<"5","9","7","7">>, "Cosmetics Stores">>,
    <<<<"5","9","7","8">>, "Typewriter Stores - Rental, Sales and Service">>,
    <<<<"5","9","8","3">>, "Fuel Dealers - Non Automotive - Coal, Fuel Oil, Liquefied Petroleum, Wood">>,
    <<<<"5","9","9","2">>, "Florists">>,
    <<<<"5","9","9","3">>, "Cigar Stores and Stands">>,
    <<<<"5","9","9","4">>, "News Dealers and Newsstands">>,
    <<<<"5","9","9","5">>, "Pet Shops, Pet Food and Supplies">>,
    <<<<"5","9","9","6">>, "Swimming Pools Sales">>,
    <<<<"5","9","9","7">>, "Electric Razor Stores">>,
    <<<<"5","9","9","8">>, "Tent and Awning Shops">>,
    <<<<"5","9","9","9">>, "Miscellaneous Specialty Retail">>,
    <<<<"7","0","1","1">>, "Hotels, Motels and Resorts">>,
    <<<<"7","0","1","2">>, "Timeshares">>,
    <<<<"7","0","3","2">>, "Sporting and Recreational Camps">>,
    <<<<"7","0","3","3">>, "Trailer Parks and Campgrounds">>,
    <<<<"7","2","1","0">>, "Laundry, Cleaning and Garment Services">>,
    <<<<"7","2","1","1">>, "Laundries">>,
    <<<<"7","2","1","6">>, "Dry Cleaners">>,
    <<<<"7","2","1","7">>, "Carpet and Upholstery Cleaning">>,
    <<<<"7","2","2","1">>, "Photographic Studios">>,
    <<<<"7","2","3","0">>, "Barber and Beauty Shops">>,
    <<<<"7","2","5","1">>, "Shoe Repair/Shoe Shine">>,
    <<<<"7","2","6","1">>, "Funeral Service and Crematories">>,
    <<<<"7","2","7","3">>, "Dating/Escort Services">>,
    <<<<"7","2","7","6">>, "Tax Preparation Services">>,
    <<<<"7","2","7","7">>, "Debt Counseling Services">>,
    <<<<"7","2","7","8">>, "Buying/Shopping Services">>,
    <<<<"7","2","9","6">>, "Clothing Rental">>,
    <<<<"7","2","9","7">>, "Massage Parlors">>,
    <<<<"7","2","9","8">>, "Health and Beauty Spas">>,
    <<<<"7","2","9","9">>, "Miscellaneous Personal Services - Not Elsewhere Classified">>,
    <<<<"7","3","1","1">>, "Advertising Services">>,
    <<<<"7","3","2","1">>, "Consumer Credit Reporting Agencies">>,
    <<<<"7","3","2","2">>, "Debt Collection Agencies">>,
    <<<<"7","3","3","3">>, "Commercial Photography, Art and Graphics">>,
    <<<<"7","3","3","8">>, "Quick Copy, Repro and Blueprint">>,
    <<<<"7","3","3","9">>, "Stenographic and Secretarial Support Services">>,
    <<<<"7","3","4","2">>, "Exterminating Services">>,
    <<<<"7","3","4","9">>, "Cleaning and Maintenance">>,
    <<<<"7","3","6","1">>, "Employment/Temp Agencies">>,
    <<<<"7","3","7","2">>, "Computer Programming">>,
    <<<<"7","3","7","5">>, "Information Retrieval Services">>,
    <<<<"7","3","7","9">>, "Computer Maintenance and Repair Services - Not Elsewhere Classified">>,
    <<<<"7","3","9","2">>, "Consulting, Public Relations and Management Services">>,
    <<<<"7","3","9","3">>, "Detective Agencies">>,
    <<<<"7","3","9","4">>, "Equipment Rental">>,
    <<<<"7","3","9","5">>, "Photo Developing">>,
    <<<<"7","3","9","9">>, "Business Services - Not Elsewhere Classified">>,
    <<<<"8","0","1","1">>, "Doctors">>,
    <<<<"8","0","2","1">>, "Dentists and Orthodontists">>,
    <<<<"8","0","3","1">>, "Osteopaths">>,
    <<<<"8","0","4","1">>, "Chiropractors">>,
    <<<<"8","0","4","2">>, "Optometrists, Ophthalmologist">>,
    <<<<"8","0","4","3">>, "Opticians, Eyeglasses and Contact Lenses">>,
    <<<<"8","0","4","9">>, "Podiatrists, Chiropodists">>,
    <<<<"8","0","5","0">>, "Nursing/Personal Care">>,
    <<<<"8","0","6","2">>, "Hospitals">>,
    <<<<"8","0","7","1">>, "Medical and Dental Labs">>,
    <<<<"8","0","9","9">>, "Medical Services">>,
    <<<<"8","1","1","1">>, "Legal Services and Attorneys">>,
    <<<<"8","2","1","1">>, "Elementary, Secondary Schools">>,
    <<<<"8","2","2","0">>, "Colleges, Universities">>,
    <<<<"8","2","4","1">>, "Correspondence Schools">>,
    <<<<"8","2","4","4">>, "Business and Secretarial Schools">>,
    <<<<"8","2","4","9">>, "Vocational/Trade Schools">>,
    <<<<"8","2","9","9">>, "Educational Services - Not Elsewhere Classified">>,
    <<<<"8","3","5","1">>, "Child Care Services">>,
    <<<<"8","3","9","8">>, "Charitable and Social Service Organizations - Fundraising">>,
    <<<<"8","6","4","1">>, "Civic, Social, Fraternal Associations">>,
    <<<<"8","6","5","1">>, "Political Organizations">>,
    <<<<"8","6","6","1">>, "Religious Organizations">>,
    <<<<"8","6","7","5">>, "Automobile Associations">>,
    <<<<"8","6","9","9">>, "Membership Organizations - Not Elsewhere Classified">>,
    <<<<"9","2","1","1">>, "Court Costs, Including Alimony and Child Support - Courts of Law">>,
    <<<<"9","2","2","2">>, "Fines - Government Administrative Entities">>,
    <<<<"9","3","1","1">>, "Tax Assessments - Government Administrative Entities">>,
    <<<<"9","3","9","9">>, "Government Services - Not Elsewhere Classified">>,
    <<<<"9","4","0","1">>, "Intra-Government Purchases - Government Only">>,
    <<<<"9","4","0","2">>, "Postal Services - Government Only">>,
    <<<<"9","4","0","5">>, "U.S. Federal Government Agencies or Departments">> }

\* table[k], own properties only.
hasOwn(table, k) == \E p \in table : p[1] = k
get(table, k) == (CHOOSE p \in table : p[1] = k)[2]

\* What every object literal inherits from Object.prototype: functions (given
\* by their name) and, under __proto__, Object.prototype itself.
ObjectPrototype ==
  { <<<<"c", "o", "n", "s", "t", "r", "u", "c", "t", "o", "r">>,
       [function |-> "Object"]>>,
    <<<<"_", "_", "d", "e", "f", "i", "n", "e", "G", "e", "t", "t", "e", "r", "_", "_">>,
       [function |-> "__defineGetter__"]>>,
    <<<<"_", "_", "d", "e", "f", "i", "n", "e", "S", "e", "t", "t", "e", "r", "_", "_">>,
       [function |-> "__defineSetter__"]>>,
    <<<<"h", "a", "s", "O", "w", "n", "P", "r", "o", "p", "e", "r", "t", "y">>,
       [function |-> "hasOwnProperty"]>>,
    <<<<"_", "_", "l", "o", "o", "k", "u", "p", "G", "e", "t", "t", "e", "r", "_", "_">>,
       [function |-> "__lookupGetter__"]>>,
    <<<<"_", "_", "l", "o", "o", "k", "u", "p", "S", "e", "t", "t", "e", "r", "_", "_">>,
       [function |-> "__lookupSetter__"]>>,
    <<<<"i", "s", "P", "r", "o", "t", "o", "t", "y", "p", "e", "O", "f">>,
       [function |-> "isPrototypeOf"]>>,
    <<<<"p", "r", "o", "p", "e", "r", "t", "y", "I", "s", "E", "n", "u", "m", "e", "r", "a", "b", "l", "e">>,
       [function |-> "propertyIsEnumerable"]>>,
    <<<<"t", "o", "S", "t", "r", "i", "n", "g">>,
       [function |-> "toString"]>>,
    <<<<"v", "a", "l", "u", "e", "O", "f">>,
       [function |-> "valueOf"]>>,
    <<<<"t", "o", "L", "o", "c", "a", "l", "e", "S", "t", "r", "i", "n", "g">>,
       [function |-> "toLocaleString"]>>,
    <<<<"_", "_", "p", "r", "o", "t", "o", "_", "_">>,
       [object |-> "Object.prototype"]>> }

\* table[k]: the own property, else the inherited one, else undefined.
lookup(table, k) ==
  IF hasOwn(table, k) THEN [own |-> get(table, k)]
  ELSE IF hasOwn(ObjectPrototype, k) THEN [inherited |-> get(ObjectPrototype, k)]
  ELSE undefined

\* ${x} of a looked-up MCC description.
descriptionText(mcc) ==
  IF "own" \in DOMAIN mcc THEN mcc.own
  ELSE IF "function" \in DOMAIN mcc.inherited
       THEN "function " \o mcc.inherited.function \o "() { [native code] }"
       ELSE "[object Object]"

\* x.prop of a looked-up currency row: a row has name, code and flag; a
\* function has only name; Object.prototype has none of them.
hasMember(currency, prop) ==
  \/ "own" \in DOMAIN currency
  \/ "function" \in DOMAIN currency.inherited /\ prop = "name"

\* Where a property may hold a string or something else, the string is
\* written [string |-> text]; a function is [function |-> name].
member(currency, prop) ==
  IF ~hasMember(currency, prop) THEN undefined
  ELSE IF "own" \in DOMAIN currency THEN [string |-> currency.own[prop]]
  ELSE [string |-> currency.inherited.function]

\* ${x.prop}
memberText(currency, prop) ==
  IF hasMember(currency, prop) THEN member(currency, prop).string
  ELSE "undefined"

(***************************************************************************)
(* The value decorators.                                                   *)
(***************************************************************************)
\* Mutant of formatMCC: the key is not looked at.
formatMCCAnyKey(value, key) ==
  LET paddedValue == padStart(value, 4, "0")
  IN  IF hasOwn(mccMapping, paddedValue)
      THEN [formattedValue |->
              paddedValue \o <<" - ", get(mccMapping, paddedValue)>>,
            mccInfo |-> [code |-> paddedValue,
                         description |->
                           [string |-> get(mccMapping, paddedValue)]]]
      ELSE [formattedValue |-> paddedValue \o <<" (Unknown MCC)">>,
            mccInfo |-> undefined]

formatMCC(value, key) ==
  IF key # <<"0", "2", "6">> THEN null
  ELSE LET paddedValue == padStart(value, 4, "0")
           mcc == lookup(mccMapping, paddedValue)
       IN  IF mcc # undefined
           THEN [formattedValue |-> paddedValue \o <<" - ", descriptionText(mcc)>>,
                 mccInfo |-> [code |-> paddedValue,
                              description |->
                                IF "own" \in DOMAIN mcc
                                THEN [string |-> mcc.own]
                                ELSE mcc.inherited]]
           ELSE [formattedValue |-> paddedValue \o <<" (Unknown MCC)">>,
                 mccInfo |-> undefined]

formatCurrency(value, key) ==
  IF key # <<"0", "4", "9">> THEN null
  ELSE LET paddedValue == padStart(value, 3, "0")
           currency == lookup(currencyMapping, paddedValue)
       IN  IF currency # undefined
           THEN [formattedValue |->
                   <<memberText(currency, "flag"), " ",
                     memberText(currency, "code"), " - ",
                     memberText(currency, "name")>>,
                 currencyInfo |-> [code |-> member(currency, "code"),
                                   name |-> member(currency, "name"),
                                   flag |-> member(currency, "flag")]]
           ELSE [formattedValue |-> value \o <<" (Unknown Currency Code)">>,
                 currencyInfo |-> undefined]

(***************************************************************************)
(* parse: the pieces of the loop body.                                     *)
(***************************************************************************)
\* Mutant of incompleteEntry: a header of 4 characters is let through.
incompleteEntryShortHeader(buf, p) == p + 4 > Len(buf)

\* if (pos + 5 > clean.length)
incompleteEntry(buf, p) == p + 5 > Len(buf)

keyOf(buf, p) == substring(buf, p, p + 3)
lenStrOf(buf, p) == substring(buf, p + 3, p + 5)

\* Mutant of invalidFormat: the key is not tested.
invalidFormatKeyUntested(key, lenStr) == ~testDigits(lenStr, 2)

\* if (!/^\d{3}$/.test(key) || !/^\d{2}$/.test(lenStr))
invalidFormat(key, lenStr) == ~testDigits(key, 3) \/ ~testDigits(lenStr, 2)

\* Mutant of valEndOf: the 5 characters of key and length are not counted.
valEndOfNoHeader(p, len) == p + len

\* Mutant of valEndOf: the header is counted one character too long.
valEndOfLongHeader(p, len) == p + 6 + len

\* const valEnd = pos + 5 + len
valEndOf(p, len) == p + 5 + len

\* if (valEnd > clean.length)
incompleteValue(buf, valEnd) == valEnd > Len(buf)

\* Mutant of valueOf: the value is read from the start of the entry.
valueOfFromHeader(buf, p, len) == substring(buf, p, p + len)

valueOf(buf, p, len) == substring(buf, p + 5, p + 5 + len)

incompleteEntryMessage(p) == <<"Incomplete entry at position ">> \o toString(p)
invalidFormatMessage(p) == <<"Invalid format at position ">> \o toString(p)
\* Mutant of incompleteValueMessage: the position of the key is reported.
incompleteValueMessageAtKey(p) ==
  <<"Incomplete value at position ">> \o toString(p)

incompleteValueMessage(p) == <<"Incomplete value at position ">> \o toString(p + 5)

\* KLVParser.definitions[key] || 'Unknown'; key is three digits here, so no
\* inherited property is met.
\* Mutant of nameOf: a key that is not registered takes the generic name.
nameOfGenericFallback(key) ==
  IF hasOwn(definitions, key) THEN get(definitions, key)
  ELSE get(definitions, <<"9", "9", "9">>)

nameOf(key) == IF hasOwn(definitions, key) THEN get(definitions, key) ELSE "Unknown"

\* An object with the own properties of obj and those of patch, patch winning.
assign(obj, patch) == patch @@ obj

\* The entry as pushed: the base entry, then the two decorators in turn.
makeEntry(key, len, value, p) ==
  LET entry == [key |-> key, len |-> len, value |-> value, pos |-> p,
                name |-> nameOf(key)]
      currencyFormat == formatCurrency(value, key)
      entry1 == IF currencyFormat # null THEN assign(entry, currencyFormat)
                ELSE entry
      mccFormat == formatMCC(value, key)
  IN  IF mccFormat # null THEN assign(entry1, mccFormat) ELSE entry1

\* Mutant of loopBody: the format of the header is tested before its size.
loopBodyFormatFirst(buf, p) ==
  LET key == keyOf(buf, p)
      lenStr == lenStrOf(buf, p)
  IN  IF invalidFormat(key, lenStr)
      THEN [kind |-> "InvalidFormat", error |-> invalidFormatMessage(p)]
      ELSE IF incompleteEntry(buf, p)
      THEN [kind |-> "IncompleteEntry", error |-> incompleteEntryMessage(p)]
      ELSE LET len == parseInt(lenStr)
               valEnd == valEndOf(p, len)
           IN  IF incompleteValue(buf, valEnd)
               THEN [kind |-> "IncompleteValue",
                     error |-> incompleteValueMessage(p)]
               ELSE [kind |-> "Entry",
                     entry |-> makeEntry(key, len, valueOf(buf, p, len), p),
                     valEnd |-> valEnd]

\* One pass through the body of the while loop, entered with pos = p.
loopBody(buf, p) ==
  IF incompleteEntry(buf, p)
  THEN [kind |-> "IncompleteEntry", error |-> incompleteEntryMessage(p)]
  ELSE LET key == keyOf(buf, p)
           lenStr == lenStrOf(buf, p)
       IN  IF invalidFormat(key, lenStr)
           THEN [kind |-> "InvalidFormat", error |-> invalidFormatMessage(p)]
           ELSE LET len == parseInt(lenStr)
                    valEnd == valEndOf(p, len)
                IN  IF incompleteValue(buf, valEnd)
                    THEN [kind |-> "IncompleteValue",
                          error |-> incompleteValueMessage(p)]
                    ELSE [kind |-> "Entry",
                          entry |-> makeEntry(key, len, valueOf(buf, p, len), p),
                          valEnd |-> valEnd]

\* Mutant of loopGuard: the loop is entered once more at the end of the input.
loopGuardInclusive(buf, p) == p <= Len(buf)

\* while (pos < clean.length)
loopGuard(buf, p) == p < Len(buf)

RECURSIVE parseLoop(_, _, _)
parseLoop(buf, p, acc) ==
  IF ~loopGuard(buf, p) THEN [results |-> acc, errors |-> <<>>]
  ELSE LET o == loopBody(buf, p)
       IN  IF o.kind = "Entry"
           THEN parseLoop(buf, o.valEnd, Append(acc, o.entry))
           ELSE [results |-> acc, errors |-> <<o.error>>]

parse(s) == parseLoop(removeWhitespace(s), 0, <<>>)

\* Mutant of validate: totalLength counts the raw string, whitespace included.
validateRawLength(s) ==
  LET r == parse(s)
  IN  [isValid |-> Len(r.errors) = 0,
       entriesCount |-> Len(r.results),
       errors |-> r.errors,
       totalLength |-> Len(s)]

(***************************************************************************)
(* validate                                                                *)
(***************************************************************************)
validate(s) ==
  LET r == parse(s)
  IN  [isValid |-> Len(r.errors) = 0,
       entriesCount |-> Len(r.results),
       errors |-> r.errors,
       totalLength |-> Len(removeWhitespace(s))]

(***************************************************************************)
(* build                                                                   *)
(***************************************************************************)
\* Mutant of buildFilter: only the key is looked at.
buildFilterKeyOnly(entry) == entry.key # <<>>

\* .filter(entry => entry.key && entry.value)
buildFilter(entry) == entry.key # <<>> /\ entry.value # <<>>

\* Mutant of buildSegment: a key longer than 3 characters is cut to 3.
buildSegmentTruncatedKey(entry) ==
  substring(padStart(entry.key, 3, "0"), 0, 3)
    \o padStart(toString(Len(entry.value)), 2, "0") \o entry.value

\* Mutant of buildSegment: the length written is at most 99.
buildSegmentClampedLength(entry) ==
  padStart(entry.key, 3, "0")
    \o padStart(toString(Min(Len(entry.value), 99)), 2, "0") \o entry.value

\* Mutant of buildSegment: the length is written without its padding.
buildSegmentUnpaddedLength(entry) ==
  padStart(entry.key, 3, "0") \o toString(Len(entry.value)) \o entry.value

\* .map(entry => key + length + entry.value)
buildSegment(entry) ==
  LET key == padStart(entry.key, 3, "0")
      length == padStart(toString(Len(entry.value)), 2, "0")
  IN  key \o length \o entry.value

\* Mutant of join: the segments are separated by a space.
RECURSIVE joinSpaced(_)
joinSpaced(ss) ==
  IF ss = <<>> THEN <<>>
  ELSE IF Len(ss) = 1 THEN Head(ss)
  ELSE Head(ss) \o <<" ">> \o joinSpaced(Tail(ss))

\* .join('')
RECURSIVE join(_)
join(ss) == IF ss = <<>> THEN <<>> ELSE Head(ss) \o join(Tail(ss))

build(es) ==
  LET kept == SelectSeq(es, buildFilter)
  IN  join([i \in 1..Len(kept) |-> buildSegment(kept[i])])

(***************************************************************************)
(* export                                                                  *)
(***************************************************************************)
\* The number of UTF-16 units of a text kept as one element.
length(text) == Len(text)

\* s.padEnd(n) of a buffer, and of a text kept as one element.
padEnd(s, n) == s \o Repeat(" ", Max(0, n - Len(s)))
padEndText(text, n) == <<text>> \o Repeat(" ", Max(0, n - length(text)))

\* .join(sep)
RECURSIVE joinWith(_, _)
joinWith(ss, sep) ==
  IF ss = <<>> THEN <<>>
  ELSE IF Len(ss) = 1 THEN Head(ss)
  ELSE Head(ss) \o sep \o joinWith(Tail(ss), sep)

csvHeaders == <<"Key,Name,Length,Value,Position", "\n">>

\* Mutant of csvRow: the fields are joined without their quotes.
csvRowUnquoted(r) ==
  r.key \o <<",", r.name, ",">> \o toString(r.len) \o <<",">> \o r.value
    \o <<",">> \o toString(r.pos)

\* `"${r.key}","${r.name}","${r.len}","${r.value}","${r.pos}"`
csvRow(r) ==
  <<"\"">> \o r.key \o <<"\"", ",", "\"", r.name, "\"", ",", "\"">>
    \o toString(r.len) \o <<"\"", ",", "\"">> \o r.value
    \o <<"\"", ",", "\"">> \o toString(r.pos) \o <<"\"">>

\* Mutant of tableRow: the name column is 20 wide.
tableRowNarrowName(r) ==
  padEnd(r.key, 5) \o <<" ">> \o padEndText(r.name, 20) \o <<" ">>
    \o padEnd(toString(r.len), 3) \o <<" ">> \o r.value

\* `${r.key.padEnd(5)} ${r.name.padEnd(30)} ${r.len.toString().padEnd(3)} ${r.value}`
tableRow(r) ==
  padEnd(r.key, 5) \o <<" ">> \o padEndText(r.name, 30) \o <<" ">>
    \o padEnd(toString(r.len), 3) \o <<" ">> \o r.value

exportCsv(rs) ==
  csvHeaders \o joinWith([i \in 1..Len(rs) |-> csvRow(rs[i])], <<"\n">>)

exportTable(rs) == joinWith([i \in 1..Len(rs) |-> tableRow(rs[i])], <<"\n">>)

\* The hexadecimal digits as a code unit is written here, and as
\* JSON.stringify writes them.
HexUpper ==
  <<"0", "1", "2", "3", "4", "5", "6", "7", "8", "9", "A", "B", "C", "D",
    "E", "F">>
HexLower ==
  <<"0", "1", "2", "3", "4", "5", "6", "7", "8", "9", "a", "b", "c", "d",
    "e", "f">>

\* The code unit U+abcd and its escape \uabcd, the digits given by their
\* places in HexUpper.
unit(a, b, c, d) ==
  "[U+" \o HexUpper[a] \o HexUpper[b] \o HexUpper[c] \o HexUpper[d] \o "]"
unicodeEscape(a, b, c, d) ==
  <<"\\", "u", HexLower[a], HexLower[b], HexLower[c], HexLower[d]>>

\* The control characters U+0000..U+001F, and the surrogates U+D800..U+DBFF
\* (high) and U+DC00..U+DFFF (low), each with its \u escape.
controlEscapes ==
  { <<unit(1, 1, c, d), unicodeEscape(1, 1, c, d)>> :
      c \in 1..2, d \in 1..16 }
highSurrogateEscapes ==
  { <<unit(14, b, c, d), unicodeEscape(14, b, c, d)>> :
      b \in 9..12, c \in 1..16, d \in 1..16 }
lowSurrogateEscapes ==
  { <<unit(14, b, c, d), unicodeEscape(14, b, c, d)>> :
      b \in 13..16, c \in 1..16, d \in 1..16 }

ControlUnits == { e[1] : e \in controlEscapes }
HighSurrogates == { e[1] : e \in highSurrogateEscapes }
LowSurrogates == { e[1] : e \in lowSurrogateEscapes }

escapeIn(table, c) == (CHOOSE e \in table : e[1] = c)[2]

\* JSON.stringify of a string: the quoting of one unit that is not a
\* surrogate.  A quote, a backslash and the control characters are escaped,
\* five of the control characters by a letter.
quoteUnit(c) ==
  IF Len(c) = 1
  THEN CASE c = "\"" -> <<"\\", "\"">>
         [] c = "\\" -> <<"\\", "\\">>
         [] c = "\n" -> <<"\\", "n">>
         [] c = "\t" -> <<"\\", "t">>
         [] c = "\r" -> <<"\\", "r">>
         [] c = "\f" -> <<"\\", "f">>
         [] OTHER -> <<c>>
  ELSE CASE c = "[U+0008]" -> <<"\\", "b">>
         [] c = "[U+0009]" -> <<"\\", "t">>
         [] c = "[U+000A]" -> <<"\\", "n">>
         [] c = "[U+000C]" -> <<"\\", "f">>
         [] c = "[U+000D]" -> <<"\\", "r">>
         [] c \in ControlUnits -> escapeIn(controlEscapes, c)
         [] OTHER -> <<c>>

\* The quoting of the i-th unit of s: a surrogate is escaped unless it is
\* one half of a pair, a high surrogate followed by a low one.
quoteAt(s, i) ==
  IF Len(s[i]) = 1 THEN quoteUnit(s[i])
  ELSE IF s[i] \in HighSurrogates
  THEN IF i < Len(s) /\ s[i + 1] \in LowSurrogates THEN <<s[i]>>
       ELSE escapeIn(highSurrogateEscapes, s[i])
  ELSE IF s[i] \in LowSurrogates
  THEN IF i > 1 /\ s[i - 1] \in HighSurrogates THEN <<s[i]>>
       ELSE escapeIn(lowSurrogateEscapes, s[i])
  ELSE quoteUnit(s[i])

quote(s) ==
  <<"\"">> \o join([i \in 1..Len(s) |-> quoteAt(s, i)]) \o <<"\"">>

\* JSON.stringify of an object at the given depth, from its serialized
\* properties <<name, text>> in insertion order, with an indent of 2.
stringifyObject(props, depth) ==
  IF props = <<>> THEN <<"{", "}">>
  ELSE <<"{", "\n">>
       \o joinWith([i \in 1..Len(props) |->
                      Repeat(" ", depth + 2)
                        \o <<"\"", props[i][1], "\"", ":", " ">>
                        \o props[i][2]],
                   <<",", "\n">>)
       \o <<"\n">> \o Repeat(" ", depth) \o <<"}">>

\* A property whose value is undefined or a function is left out.
isSerialized(v) == "string" \in DOMAIN v \/ "object" \in DOMAIN v

\* Object.prototype has no enumerable property of its own.
stringifyMember(v) ==
  IF "string" \in DOMAIN v THEN quote(<<v.string>>) ELSE <<"{", "}">>

stringifyCurrencyInfo(info, depth) ==
  LET names == SelectSeq(<<"code", "name", "flag">>,
                         LAMBDA n : isSerialized(info[n]))
  IN  stringifyObject([i \in 1..Len(names) |->
                         <<names[i], stringifyMember(info[names[i]])>>],
                      depth)

stringifyMccInfo(info, depth) ==
  stringifyObject(
    <<<<"code", quote(info.code)>>>>
      \o (IF isSerialized(info.description)
          THEN <<<<"description", stringifyMember(info.description)>>>>
          ELSE <<>>),
    depth)

\* The properties of an entry in the order parse creates them.
stringifyEntry(r, depth) ==
  stringifyObject(
    << <<"key", quote(r.key)>>,
       <<"len", toString(r.len)>>,
       <<"value", quote(r.value)>>,
       <<"pos", toString(r.pos)>>,
       <<"name", quote(<<r.name>>)>> >>
      \o (IF "formattedValue" \in DOMAIN r
          THEN <<<<"formattedValue", quote(r.formattedValue)>>>> ELSE <<>>)
      \o (IF "currencyInfo" \in DOMAIN r /\ r.currencyInfo # undefined
          THEN <<<<"currencyInfo",
                   stringifyCurrencyInfo(r.currencyInfo, depth + 2)>>>>
          ELSE <<>>)
      \o (IF "mccInfo" \in DOMAIN r /\ r.mccInfo # undefined
          THEN <<<<"mccInfo", stringifyMccInfo(r.mccInfo, depth + 2)>>>>
          ELSE <<>>),
    depth)

\* JSON.stringify(results, null, 2)
stringify(rs) ==
  IF rs = <<>> THEN <<"[", "]">>
  ELSE <<"[", "\n">>
       \o joinWith([i \in 1..Len(rs) |->
                      Repeat(" ", 2) \o stringifyEntry(rs[i], 2)],
                   <<",", "\n">>)
       \o <<"\n", "]">>

\* Mutant of export: an unrecognized format falls back to CSV.
exportDefaultCsv(rs, format) ==
  CASE format = "json" -> stringify(rs)
    [] format = "table" -> exportTable(rs)
    [] OTHER -> exportCsv(rs)

export(rs, format) ==
  CASE format = "json" -> stringify(rs)
    [] format = "csv" -> exportCsv(rs)
    [] format = "table" -> exportTable(rs)
    [] OTHER -> stringify(rs)


(***************************************************************************)
(* The inputs.                                                             *)
(***************************************************************************)
Alphabet == {"0", "1", " ", "[U+00E9]"}

RECURSIVE StringsUpTo(_, _)
StringsUpTo(chars, n) ==
  IF n = 0 THEN {<<>>}
  ELSE LET shorter == StringsUpTo(chars, n - 1)
       IN  shorter \cup {Append(s, c) : s \in shorter, c \in chars}

RECURSIVE ListsUpTo(_, _)
ListsUpTo(S, n) ==
  IF n = 0 THEN {<<>>}
  ELSE LET shorter == ListsUpTo(S, n - 1)
       IN  shorter \cup {Append(l, x) : l \in shorter, x \in S}

TypedInputs == StringsUpTo(Alphabet, MaxLen)

\* useState<string>('00206AB48DE026044577')
initialKlvInput ==
  <<"0", "0", "2", "0", "6", "A", "B", "4", "8", "D", "E", "0", "2", "6",
    "0", "4", "4", "5", "7", "7">>

\* Inputs of the tests and of the application, and inputs typed by hand.
SampleInputs ==
  {<<"0", "0", "2", "0", "6", "A", "B", "4", "8", "D", "E", "0", "2", "6",
      "0", "4", "4", "5", "7", "7">>,
   <<"0", "0", "2", " ", "0", "6", " ", "A", "B", "4", "8", "D", "E", " ",
      "0", "2", "6", " ", "0", "4", " ", "4", "5", "7", "7">>,
   <<"0", "0", "2", "0", "6", "A", "B", "4", "8", "D", "E", "0", "0", "2",
      "0", "0">>,
   <<"9", "9", "9", "0", "5", "T", "E", "S", "T", "1">>,
   <<" ", " ", " ", "\n", "\t", " ", " ">>,
   <<"0", "4", "9", "0", "3", "8", "4", "0">>,
   <<"0", "4", "9", "0", "2", "3", "6">>,
   <<"0", "4", "9", "0", "3", "9", "9", "9">>,
   <<"0", "2", "6", "0", "4", "5", "4", "1", "1", "9", "0", "5", "0", "1",
      "1">>,
   <<"0", "4", "2", "1", "0", "0", "0", "0", "0", "5", "0", "0", "1", "0",
      "0", "0", "8", "U", "S", "D">>,
   <<"0", "4", "9", "0", "8", "t", "o", "S", "t", "r", "i", "n", "g">>,
   <<"0", "2", "6", "1", "1", "c", "o", "n", "s", "t", "r", "u", "c", "t",
      "o", "r">>,
   <<"9", "9", "9", "0", "5", "T", "E", "S", "T", "1", "1", "2", "3", "0",
      "3", "A", "B", "C">>,
   <<"0", "4", "9", "0", "3", "8", "4", "0", "0", "2", "6", "0", "4", "5",
      "4", "1", "1", "0", "0", "2", "0", "1", "A">>,
   <<"0", "0", "2", "1", "0", "0", "1", "2", "3", "4", "5", "6", "7", "8",
      "9", "A", "B", "C", "D", "E", "F">>,
   <<"0", "0", "2", "1", "0", "0", "1", "2", "3", "4", "5", "6", "7", "8",
      "9">>,
   <<"0", "0", "2", "0", "A", "0", "1", "2", "3", "4", "5", "6", "7", "8",
      "9">>,
    <<"[U+3000]">>,
    <<"0", "0", "\f", "2", "[U+3000]", "0", "[U+000B]", "1", "[U+0008]">>,
    <<"0", "0", "2", "0", "1", "[U+0001]">>,
    <<"0", "0", "2", "0", "1", "[U+D83D]">>,
    <<"0", "0", "2", "0", "3", "[U+DE00]", "[U+D83D]", "[U+DE00]">>}

BuildKeys == {<<>>, <<"2">>, <<"0", "4", "9">>, <<"1", "2", "3", "4">>}
BuildValues ==
  {<<>>, <<"A">>, <<"8", "4", "0">>, <<"A", " ", "B">>,
   Repeat("A", 10), Repeat("A", 99), Repeat("A", 100)}
BuildEntries == [key : BuildKeys, value : BuildValues]
BuildInputs == ListsUpTo(BuildEntries, MaxEntries)

EditChars == {" ", "X"}
insertAt(s, i, c) == SubSeq(s, 1, i) \o <<c>> \o SubSeq(s, i + 1, Len(s))
deleteAt(s, i) == SubSeq(s, 1, i - 1) \o SubSeq(s, i + 1, Len(s))

(***************************************************************************)
(* The state machine.                                                      *)
(***************************************************************************)
\* The components as they are mounted: App (klvInput, history) and
\* BatchProcessor.
UiIdle ==
  /\ klvInput = initialKlvInput
  /\ history = <<>>
  /\ activeTab = "extractor"
  /\ reading = <<>>
  /\ handOvers = 0
  /\ batchInput = <<>>
  /\ processing = FALSE
  /\ batchResults = <<>>
  /\ inFlight = <<>>
  /\ onProcess = <<>>
  /\ cleared = FALSE

Init ==
  /\ \/ /\ pc = "build"
        /\ entries \in BuildInputs
        /\ klvString = <<>>
     \/ /\ pc = "input"
        /\ entries = <<>>
        /\ klvString \in TypedInputs \cup SampleInputs
  /\ built = <<>>
  /\ clean = <<>>
  /\ pos = 0
  /\ results = <<>>
  /\ errors = <<>>
  /\ iterations = 0
  /\ validation = null
  /\ call = null
  /\ ret = null
  /\ UiIdle

\* const built = KLVParser.build(entries), then handed on as the input.
Build ==
  /\ pc = "build"
  /\ built' = build(entries)
  /\ klvString' = build(entries)
  /\ pc' = "built"
  /\ UNCHANGED <<entries, clean, pos, results, errors, iterations,
                 validation, call, ret>>
  /\ UNCHANGED <<appVars, batchVars>>

\* The input box: one character typed into, or deleted from, the built string.
EditInput ==
  /\ pc = "built"
  /\ Len(klvString) <= MaxEditLen
  /\ \/ \E i \in 0..Len(klvString), c \in EditChars :
          klvString' = insertAt(klvString, i, c)
     \/ \E i \in 1..Len(klvString) : klvString' = deleteAt(klvString, i)
  /\ pc' = "input"
  /\ UNCHANGED <<entries, built, clean, pos, results, errors, iterations,
                 validation, call, ret>>
  /\ UNCHANGED <<appVars, batchVars>>

\* parse, up to the loop.
ParseBegin ==
  /\ pc \in {"built", "input"}
  /\ clean' = removeWhitespace(klvString)
  /\ pos' = 0
  /\ results' = <<>>
  /\ errors' = <<>>
  /\ iterations' = 0
  /\ pc' = "loop"
  /\ UNCHANGED <<entries, built, klvString, validation, call, ret>>
  /\ UNCHANGED <<appVars, batchVars>>

\* A pass through the loop body that finds fewer than 5 characters left.
IncompleteEntry ==
  /\ pc = "loop"
  /\ loopGuard(clean, pos)
  /\ loopBody(clean, pos).kind = "IncompleteEntry"
  /\ errors' = Append(errors, loopBody(clean, pos).error)
  /\ iterations' = iterations + 1
  /\ pc' = "return"
  /\ UNCHANGED <<entries, built, klvString, clean, pos, results, validation,
                 call, ret>>
  /\ UNCHANGED <<appVars, batchVars>>

\* Mutant of InvalidFormat: the error is recorded and scanning resumes one
\* character further on.
InvalidFormatResync ==
  /\ pc = "loop"
  /\ loopGuard(clean, pos)
  /\ loopBody(clean, pos).kind = "InvalidFormat"
  /\ errors' = Append(errors, loopBody(clean, pos).error)
  /\ iterations' = iterations + 1
  /\ pos' = pos + 1
  /\ UNCHANGED <<entries, built, klvString, pc, clean, results, validation,
                 call, ret>>
  /\ UNCHANGED <<appVars, batchVars>>

\* A pass through the loop body that finds a malformed key or length prefix.
InvalidFormat ==
  /\ pc = "loop"
  /\ loopGuard(clean, pos)
  /\ loopBody(clean, pos).kind = "InvalidFormat"
  /\ errors' = Append(errors, loopBody(clean, pos).error)
  /\ iterations' = iterations + 1
  /\ pc' = "return"
  /\ UNCHANGED <<entries, built, klvString, clean, pos, results, validation,
                 call, ret>>
  /\ UNCHANGED <<appVars, batchVars>>

\* A pass through the loop body that finds the value running past the end.
IncompleteValue ==
  /\ pc = "loop"
  /\ loopGuard(clean, pos)
  /\ loopBody(clean, pos).kind = "IncompleteValue"
  /\ errors' = Append(errors, loopBody(clean, pos).error)
  /\ iterations' = iterations + 1
  /\ pc' = "return"
  /\ UNCHANGED <<entries, built, klvString, clean, pos, results, validation,
                 call, ret>>
  /\ UNCHANGED <<appVars, batchVars>>

\* A pass through the loop body that pushes an entry and moves the cursor.
PushEntry ==
  /\ pc = "loop"
  /\ loopGuard(clean, pos)
  /\ loopBody(clean, pos).kind = "Entry"
  /\ results' = Append(results, loopBody(clean, pos).entry)
  /\ pos' = loopBody(clean, pos).valEnd
  /\ iterations' = iterations + 1
  /\ UNCHANGED <<entries, built, klvString, pc, clean, errors, validation,
                 call, ret>>
  /\ UNCHANGED <<appVars, batchVars>>

\* The loop condition is false: return { results, errors }.
LoopExit ==
  /\ pc = "loop"
  /\ ~loopGuard(clean, pos)
  /\ pc' = "return"
  /\ UNCHANGED <<entries, built, klvString, clean, pos, results, errors,
                 iterations, validation, call, ret>>
  /\ UNCHANGED <<appVars, batchVars>>

\* validate of the same string.
Validate ==
  /\ pc = "return"
  /\ validation' = validate(klvString)
  /\ pc' = "done"
  /\ UNCHANGED <<entries, built, klvString, clean, pos, results, errors,
                 iterations, call, ret>>
  /\ UNCHANGED <<appVars, batchVars>>

Next ==
  \/ Build
  \/ EditInput
  \/ ParseBegin
  \/ IncompleteEntry
  \/ InvalidFormat
  \/ IncompleteValue
  \/ PushEntry
  \/ LoopExit
  \/ Validate

Spec == Init /\ [][Next]_vars

(***************************************************************************)
(* Direct calls of the decorators and of export.                           *)
(***************************************************************************)
RECURSIVE dropLeadingZeros(_)
dropLeadingZeros(s) ==
  IF s # <<>> /\ Head(s) = "0" THEN dropLeadingZeros(Tail(s)) ELSE s

TableKeys(table) == {p[1] : p \in table}

DecoratorKeys == {<<"0", "4", "9">>, <<"0", "2", "6">>, <<"0", "0", "2">>, <<"4", "9">>, <<>>}

\* Every code of the two tables, as written and without its leading zeros,
\* the names every object inherits, and values of neither kind.
DecoratorValues ==
  LET codes == TableKeys(currencyMapping) \cup TableKeys(mccMapping)
  IN  codes \cup {dropLeadingZeros(k) : k \in codes}
        \cup TableKeys(ObjectPrototype)
        \cup {<<"9", "9", "9">>, <<"0", "8", "4", "0">>, <<"1", "2", "3", "4", "5">>, <<"U", "S", "D">>}

\* The entries of the export tests: written by hand, without decoration.
sampleResults ==
  <<[key |-> <<"0", "0", "2">>, len |-> 6, value |-> <<"A", "B", "4", "8", "D", "E">>, pos |-> 0,
     name |-> "Tracking Number"],
    [key |-> <<"0", "2", "6">>, len |-> 4, value |-> <<"4", "5", "7", "7">>, pos |-> 11,
     name |-> "Merchant Category Code"]>>

ExportResults ==
  {parse(s).results : s \in SampleInputs} \cup {<<>>, sampleResults}

ExportFormats == {"json", "csv", "table", "unknown"}

ApiCalls ==
  [fn : {"formatCurrency", "formatMCC"}, value : DecoratorValues,
   key : DecoratorKeys]
    \cup [fn : {"export"}, results : ExportResults, format : ExportFormats]
    \cup [fn : {"export"}, results : ExportResults]

ApiInit ==
  /\ pc = "call"
  /\ call \in ApiCalls
  /\ ret = null
  /\ entries = <<>>
  /\ built = <<>>
  /\ klvString = <<>>
  /\ clean = <<>>
  /\ pos = 0
  /\ results = <<>>
  /\ errors = <<>>
  /\ iterations = 0
  /\ validation = null
  /\ UiIdle

FormatCurrency ==
  /\ pc = "call"
  /\ call.fn = "formatCurrency"
  /\ ret' = formatCurrency(call.value, call.key)
  /\ pc' = "returned"
  /\ UNCHANGED <<entries, built, klvString, clean, pos, results, errors,
                 iterations, validation, call>>
  /\ UNCHANGED <<appVars, batchVars>>

FormatMCC ==
  /\ pc = "call"
  /\ call.fn = "formatMCC"
  /\ ret' = formatMCC(call.value, call.key)
  /\ pc' = "returned"
  /\ UNCHANGED <<entries, built, klvString, clean, pos, results, errors,
                 iterations, validation, call>>
  /\ UNCHANGED <<appVars, batchVars>>

\* export(results, format = 'json')
Export ==
  /\ pc = "call"
  /\ call.fn = "export"
  /\ ret' = export(call.results,
                   IF "format" \in DOMAIN call THEN call.format ELSE "json")
  /\ pc' = "returned"
  /\ UNCHANGED <<entries, built, klvString, clean, pos, results, errors,
                 iterations, validation, call>>
  /\ UNCHANGED <<appVars, batchVars>>

ApiNext ==
  \/ FormatCurrency
  \/ FormatMCC
  \/ Export

ApiSpec == ApiInit /\ [][ApiNext]_vars

(***************************************************************************)
(* App: the tabs, the input box of the extractor, the file upload and the  *)
(* processing history.  The id of a history entry, a reading of the clock  *)
(* in milliseconds, is left out.  handleFileChange of FileUpload is an     *)
(* async function: what it does up to its await is the step ChooseFile,    *)
(* what it does when the text of the file has arrived is the step          *)
(* HandleFileLoad, with the onFileLoad of the render the file was chosen   *)
(* in, whose addToHistory holds that render's history.  The form of the    *)
(* builder is the subject of BuilderSpec; here the builder hands over one  *)
(* of BuilderResults.                                                      *)
(***************************************************************************)

\* A run chooses files and takes builder results this many times in all.
MaxHandOvers == 2

\* The ids of tabs.
Tabs == {"extractor", "builder", "batch", "history"}

\* history.slice(0, 9): at most this many earlier entries are kept.
HistoryKept == 9

\* Array.prototype.slice(start, end) with 0 <= start <= end.
slice(xs, start, end) == SubSeq(xs, start + 1, Min(end, Len(xs)))

\* What the clock reads when an entry is added, as toLocaleString and as
\* toLocaleTimeString print it.
ClockReadings ==
  { [toLocaleString |-> <<"10/30/2026, 12:00:00 PM">>,
     toLocaleTimeString |-> <<"12:00:00 PM">>] }

\* A file as FileUpload hands it to onFileLoad: its text and its name.
FileLoads ==
  { [content |-> <<"t", "x", "t", " ", "c", "o", "n", "t", "e", "n", "t">>,
     filename |-> <<"data.txt">>] }

\* Forms of the builder whose Build button hands a string to onBuild.
BuilderForms ==
  { << [key |-> <<"0", "0", "2">>, value |-> <<"A", "B", "4", "8", "D", "E">>],
       [key |-> <<"0", "2", "6">>, value |-> <<"4", "5", "7", "7">>] >> }

BuilderResults == { build(form) : form \in BuilderForms } \ { <<>> }

\* Texts typed into the input box.
TypedKlvInputs == { initialKlvInput }

\* Every text the input box can hold.
KlvInputs ==
  TypedKlvInputs \cup { <<>> } \cup { f.content : f \in FileLoads }
    \cup BuilderResults

\* useMemo(() => KLVParser.parse(klvInput), [klvInput]): the parse of a text
\* is computed once.
parsed == [data \in KlvInputs |-> parse(data)]

\* setHistory([entry, ...history.slice(0, 9)])
historyAfter(history_, entry) ==
  <<entry>> \o slice(history_, 0, HistoryKept)

\* addToHistory(data, label) of a render whose history is history_, the
\* clock reading now; an omitted label is the empty one.
addToHistory(history_, data, label, now) ==
  historyAfter(history_,
               [label |-> IF label # <<>> THEN label
                          ELSE <<"Entry ">> \o toString(Len(history_) + 1),
                data |-> data,
                timestamp |-> now.toLocaleString,
                resultCount |-> Len(parsed[data].results)])

\* BatchProcessor is drawn on the batch tab only: when another tab is shown
\* its state is gone, a later instance starts afresh, and the calls of
\* processBatch that have not resumed belong to an instance that is gone.
BatchUnmounted ==
  /\ batchInput' = <<>>
  /\ processing' = FALSE
  /\ batchResults' = <<>>
  /\ inFlight' = [i \in 1..Len(inFlight) |->
                    [inFlight[i] EXCEPT !.mounted = FALSE]]
  /\ UNCHANGED <<onProcess, cleared>>

\* setActiveTab(tab) and what the next render draws.
Show(tab) ==
  /\ activeTab' = tab
  /\ IF activeTab = "batch" /\ tab # "batch" THEN BatchUnmounted
     ELSE UNCHANGED batchVars

AppInit ==
  /\ entries = <<>>
  /\ built = <<>>
  /\ klvString = <<>>
  /\ pc = "app"
  /\ clean = <<>>
  /\ pos = 0
  /\ results = <<>>
  /\ errors = <<>>
  /\ iterations = 0
  /\ validation = null
  /\ call = null
  /\ ret = null
  /\ UiIdle

\* A tab button.
SetActiveTab ==
  /\ pc \in {"app", "batch"}
  /\ \E tab \in Tabs :
       /\ tab # activeTab
       /\ Show(tab)
  /\ UNCHANGED <<entries, coreVars, klvInput, history, reading, handOvers>>

\* onChange of the input box.
SetKlvInput ==
  /\ pc = "app"
  /\ activeTab = "extractor"
  /\ \E text \in TypedKlvInputs :
       /\ text # klvInput
       /\ klvInput' = text
  /\ UNCHANGED <<entries, coreVars, history, activeTab, reading, handOvers,
                 batchVars>>

\* The Clear button of the input box.
ClearKlvInput ==
  /\ pc = "app"
  /\ activeTab = "extractor"
  /\ klvInput' = <<>>
  /\ UNCHANGED <<entries, coreVars, history, activeTab, reading, handOvers,
                 batchVars>>

\* The Save to History button, drawn only when the parse of the input box
\* has results and no error.
SaveToHistory ==
  /\ pc = "app"
  /\ activeTab = "extractor"
  /\ Len(parsed[klvInput].results) > 0
  /\ Len(parsed[klvInput].errors) = 0
  /\ \E now \in ClockReadings :
       history' =
         addToHistory(history, klvInput,
                      toString(Len(parsed[klvInput].results))
                        \o <<" entries - ">> \o now.toLocaleTimeString,
                      now)
  /\ UNCHANGED <<entries, coreVars, klvInput, activeTab, reading, handOvers,
                 batchVars>>

\* Clicking an entry of the history.
LoadFromHistory ==
  /\ pc = "app"
  /\ activeTab = "history"
  /\ \E i \in 1..Len(history) :
       klvInput' = history[i].data
  /\ Show("extractor")
  /\ UNCHANGED <<entries, coreVars, history, reading, handOvers>>

\* handleFileChange up to its await: a file is chosen.
ChooseFile ==
  /\ pc = "app"
  /\ activeTab = "extractor"
  /\ handOvers < MaxHandOvers
  /\ \E file \in FileLoads :
       reading' = Append(reading, [file |-> file, history |-> history])
  /\ handOvers' = handOvers + 1
  /\ UNCHANGED <<entries, coreVars, klvInput, history, activeTab, batchVars>>

\* handleFileChange after its await: the text of a file has arrived and
\* onFileLoad, the handleFileLoad of the render the file was chosen in, runs.
HandleFileLoad ==
  /\ pc = "app"
  /\ \E i \in 1..Len(reading), now \in ClockReadings :
       /\ klvInput' = reading[i].file.content
       /\ history' = addToHistory(reading[i].history, reading[i].file.content,
                                  <<"File: ">> \o reading[i].file.filename,
                                  now)
       /\ reading' = deleteAt(reading, i)
  /\ Show("extractor")
  /\ UNCHANGED <<entries, coreVars, handOvers>>

\* handleFileChange after its await: the file could not be read.
FileReadError ==
  /\ pc = "app"
  /\ \E i \in 1..Len(reading) :
       reading' = deleteAt(reading, i)
  /\ UNCHANGED <<entries, coreVars, klvInput, history, activeTab, handOvers,
                 batchVars>>

\* The builder hands a built string to onBuild.
HandleBuilderResult ==
  /\ pc = "app"
  /\ activeTab = "builder"
  /\ handOvers < MaxHandOvers
  /\ \E klvString_ \in BuilderResults, now \in ClockReadings :
       /\ klvInput' = klvString_
       /\ history' = addToHistory(history, klvString_, <<"Built KLV">>, now)
  /\ Show("extractor")
  /\ handOvers' = handOvers + 1
  /\ UNCHANGED <<entries, coreVars, reading>>

\* The Clear All History button, drawn only when the history is not empty.
ClearAllHistory ==
  /\ pc = "app"
  /\ activeTab = "history"
  /\ Len(history) > 0
  /\ history' = <<>>
  /\ UNCHANGED <<entries, coreVars, klvInput, activeTab, reading, handOvers,
                 batchVars>>

AppNext ==
  \/ SetActiveTab
  \/ SetKlvInput
  \/ ClearKlvInput
  \/ SaveToHistory
  \/ LoadFromHistory
  \/ ChooseFile
  \/ HandleFileLoad
  \/ FileReadError
  \/ HandleBuilderResult
  \/ ClearAllHistory

AppSpec == AppInit /\ [][AppNext]_vars

(***************************************************************************)
(* KLVBuilder: the form of the builder.  entries is the state of the form  *)
(* and built the string last handed to onBuild.                            *)
(***************************************************************************)

\* The form is not grown beyond this many entries.
MaxFormEntries == 3

\* Keys offered by the select of an entry, and values typed into its text
\* box.
FormKeys == { <<"0", "0", "2">>, <<"0", "4", "9">> }
FormValues == { <<>>, <<"A">>, <<"8", " ", "4">> }

\* { key: '002', value: '' }
blankEntry == [key |-> <<"0", "0", "2">>, value |-> <<>>]

\* entries.filter((_, i) => i !== index), index counted from 1.
without(es, index) ==
  [i \in 1..(Len(es) - 1) |-> IF i < index THEN es[i] ELSE es[i + 1]]

removeEntryUnguarded(es, index) == without(es, index)

\* removeEntry(index): what setEntries receives, or the entries as they are
\* when the removal is refused.
removeEntry(es, index) ==
  IF Len(es) > 1 THEN without(es, index) ELSE es

\* updateEntry(index, field, value)
updateEntry(es, index, field, value) ==
  [es EXCEPT ![index] = IF field = "key" THEN [@ EXCEPT !.key = value]
                        ELSE [@ EXCEPT !.value = value]]

BuilderInit ==
  /\ entries = <<blankEntry>>
  /\ built = <<>>
  /\ klvString = <<>>
  /\ pc = "builder"
  /\ clean = <<>>
  /\ pos = 0
  /\ results = <<>>
  /\ errors = <<>>
  /\ iterations = 0
  /\ validation = null
  /\ call = null
  /\ ret = null
  /\ UiIdle

AddEntry ==
  /\ pc = "builder"
  /\ Len(entries) < MaxFormEntries
  /\ entries' = Append(entries, blankEntry)
  /\ UNCHANGED <<coreVars, appVars, batchVars>>

UpdateEntry ==
  /\ pc = "builder"
  /\ \E index \in 1..Len(entries) :
       \/ \E key \in FormKeys :
            entries' = updateEntry(entries, index, "key", key)
       \/ \E value \in FormValues :
            entries' = updateEntry(entries, index, "value", value)
  /\ UNCHANGED <<coreVars, appVars, batchVars>>

RemoveEntry ==
  /\ pc = "builder"
  /\ \E index \in 1..Len(entries) :
       entries' = removeEntry(entries, index)
  /\ UNCHANGED <<coreVars, appVars, batchVars>>

\* The Build KLV button, disabled while every value is empty.
BuildKLV ==
  /\ pc = "builder"
  /\ \E i \in 1..Len(entries) : entries[i].value # <<>>
  /\ built' = IF build(entries) # <<>> THEN build(entries) ELSE built
  /\ UNCHANGED <<entries, klvString, pc, clean, pos, results, errors,
                 iterations, validation, call, ret, appVars, batchVars>>

ClearAll ==
  /\ pc = "builder"
  /\ entries' = <<blankEntry>>
  /\ UNCHANGED <<coreVars, appVars, batchVars>>

BuilderNext ==
  \/ AddEntry
  \/ UpdateEntry
  \/ RemoveEntry
  \/ BuildKLV
  \/ ClearAll

BuilderSpec == BuilderInit /\ [][BuilderNext]_vars

(***************************************************************************)
(* BatchProcessor.  processBatch is an async function: what it does up to  *)
(* its await is the step ProcessBatch, what it does when the timer of 500  *)
(* ms has fired is the step ProcessBatchResume, and between the two its    *)
(* local batchResults waits in inFlight, the calls that have not resumed,   *)
(* each with whether the instance that made it is still drawn.             *)
(* The results the component displays (its state results) are the variable *)
(* batchResults.                                                           *)
(***************************************************************************)

\* Process Batch is not clicked once this many batches have been started.
MaxBatches == 2

\* s.split(sep) from position start on, sep one character.
RECURSIVE splitFrom(_, _, _)
splitFrom(s, sep, start) ==
  IF \E j \in start..Len(s) : s[j] = sep
  THEN LET j == CHOOSE j \in start..Len(s) :
                  /\ s[j] = sep
                  /\ \A k \in start..(j - 1) : s[k] # sep
       IN  <<SubSeq(s, start, j - 1)>> \o splitFrom(s, sep, j + 1)
  ELSE <<SubSeq(s, start, Len(s))>>

split(s, sep) == splitFrom(s, sep, 1)

trimStart(s) ==
  IF \A i \in 1..Len(s) : s[i] \in WhiteSpace THEN <<>>
  ELSE SubSeq(s, CHOOSE a \in 1..Len(s) :
                   /\ s[a] \notin WhiteSpace
                   /\ \A i \in 1..(a - 1) : s[i] \in WhiteSpace,
              Len(s))

\* s.trim()
trim(s) ==
  IF \A i \in 1..Len(s) : s[i] \in WhiteSpace THEN <<>>
  ELSE SubSeq(s,
              CHOOSE a \in 1..Len(s) :
                /\ s[a] \notin WhiteSpace
                /\ \A i \in 1..(a - 1) : s[i] \in WhiteSpace,
              CHOOSE z \in 1..Len(s) :
                /\ s[z] \notin WhiteSpace
                /\ \A i \in (z + 1)..Len(s) : s[i] \in WhiteSpace)

\* batchInput.split('\n').filter(line => line.trim())
batchLines(input) ==
  SelectSeq(split(input, "\n"), LAMBDA line : trim(line) # <<>>)

\* lines.map((line, index) => ({ line: index + 1, input: line.trim(),
\*                               ...KLVParser.parse(line.trim()) }))
batchOf(input) ==
  LET lines == batchLines(input)
  IN  [index \in 1..Len(lines) |->
         [line |-> index,
          input |-> trim(lines[index]),
          results |-> parse(trim(lines[index])).results,
          errors |-> parse(trim(lines[index])).errors]]

\* The four lines of loadSampleBatch, joined by line feeds.
sampleData ==
  <<"0", "0", "2", "0", "6", "A", "B", "4", "8", "D", "E", "0", "2", "6",
    "0", "4", "4", "5", "7", "7">>
    \o <<"\n">> \o
  <<"0", "4", "2", "1", "0", "0", "0", "0", "0", "5", "0", "0", "1", "0",
    "0", "0", "8", "U", "S", "D", "0", "4", "3", "0", "5", "T", "e", "s",
    "t", " ", "M", "e", "r", "c", "h", "a", "n", "t">>
    \o <<"\n">> \o
  <<"2", "5", "1", "0", "3", "E", "M", "V", "2", "5", "1", "0", "7", "V",
    "i", "s", "a", "2", "6", "1", "0", "5", "5", "4", "2", "2", "0", "0",
    "0", "1", "5", "I", "N", "V", "A", "L", "I", "D", "_", "E", "N", "T",
    "R", "Y">>
    \o <<"\n">> \o
  <<"0", "4", "2", "1", "0", "0", "5", "0", "0", "2", "6", "0", "5", "5",
    "4", "2", "2", "6", "0", "0", "5", "1", "2", "3", "4", "5", "6", "7",
    "8", "0", "4", "2", "0", "3", "6", "M", "E", "R", "C", "H", "A", "N",
    "T", "_", "I", "D", "_", "1", "2", "3", "4", "3", "0", "1", "5", "T",
    "e", "s", "t", " ", "T", "r", "a", "n", "s", "a", "c", "t", "i", "o",
    "n">>

\* Texts typed into the batch input box.
TypedBatchInputs ==
  { <<"0", "0", "2", "0", "6", "A", "B", "4", "8", "D", "E", "\n", "9", "9",
      "9", "9", "9", "I", "N", "V", "A", "L", "I", "D">>,
    <<"0", "0", "2", "0", "6", "A", "B", "4", "8", "D", "E", "\n", "\n",
      "\n", " ", " ", " ", "\n">>,
    <<" ", " ", "0", "0", "2", "0", "6", "A", "B", "4", "8", "D", "E", "0",
      "2", "6", "0", "4", "4", "5", "7", "7", " ", "\r", "\n", "\t", "\n",
      "0", "4", "9", "0", "3", "8", "4", "0">>,
    <<" ", " ", " ", "\n", "\t">> }

BatchInit ==
  /\ entries = <<>>
  /\ built = <<>>
  /\ klvString = <<>>
  /\ pc = "batch"
  /\ clean = <<>>
  /\ pos = 0
  /\ results = <<>>
  /\ errors = <<>>
  /\ iterations = 0
  /\ validation = null
  /\ call = null
  /\ ret = null
  /\ UiIdle

\* onChange of the batch input box.
SetBatchInput ==
  /\ pc = "batch"
  /\ activeTab = "batch"
  /\ \E text \in TypedBatchInputs :
       /\ text # batchInput
       /\ batchInput' = text
  /\ UNCHANGED <<entries, coreVars, appVars, processing, batchResults,
                 inFlight, onProcess, cleared>>

LoadSampleBatch ==
  /\ pc = "batch"
  /\ activeTab = "batch"
  /\ batchInput' = sampleData
  /\ UNCHANGED <<entries, coreVars, appVars, processing, batchResults,
                 inFlight, onProcess, cleared>>

\* The Process Batch button, disabled while processing and while the input
\* box holds only white space: processBatch up to its await.
ProcessBatch ==
  /\ pc = "batch"
  /\ activeTab = "batch"
  /\ ~processing
  /\ trim(batchInput) # <<>>
  /\ Len(onProcess) + Len(inFlight) < MaxBatches
  /\ processing' = TRUE
  /\ inFlight' = Append(inFlight, [batchResults |-> batchOf(batchInput),
                                   mounted |-> TRUE])
  /\ cleared' = FALSE
  /\ UNCHANGED <<entries, coreVars, appVars, batchInput, batchResults,
                 onProcess>>

\* processBatch after its await: the timer has fired, the timers in the
\* order they were set.  setResults and setProcessing reach the instance
\* that made the call, if it is still drawn.
ProcessBatchResume ==
  /\ pc = "batch"
  /\ inFlight # <<>>
  /\ IF Head(inFlight).mounted
     THEN /\ batchResults' = Head(inFlight).batchResults
          /\ processing' = FALSE
     ELSE UNCHANGED <<batchResults, processing>>
  /\ onProcess' = Append(onProcess, Head(inFlight).batchResults)
  /\ inFlight' = Tail(inFlight)
  /\ UNCHANGED <<entries, coreVars, appVars, batchInput, cleared>>

\* The Clear button, enabled at all times.
ClearBatch ==
  /\ pc = "batch"
  /\ activeTab = "batch"
  /\ batchInput' = <<>>
  /\ batchResults' = <<>>
  /\ cleared' = TRUE
  /\ UNCHANGED <<entries, coreVars, appVars, processing, inFlight,
                 onProcess>>

BatchNext ==
  \/ SetActiveTab
  \/ SetBatchInput
  \/ LoadSampleBatch
  \/ ProcessBatch
  \/ ProcessBatchResume
  \/ ClearBatch

BatchSpec == BatchInit /\ [][BatchNext]_vars

\* The timer of processBatch fires: setTimeout(resolve, 500).
BatchFairSpec ==
  BatchInit /\ [][BatchNext]_vars /\ WF_vars(ProcessBatchResume)

(***************************************************************************)
(* Helpers of the properties, written without the operators of the model.  *)
(***************************************************************************)
AllDigits(s) == \A i \in 1..Len(s) : s[i] \in Digits
NoWhitespace(s) == \A i \in 1..Len(s) : s[i] \notin WhiteSpace
ZeroPadded3(k) ==
  CASE Len(k) = 1 -> <<"0", "0">> \o k
    [] Len(k) = 2 -> <<"0">> \o k
    [] OTHER -> k

\* parse has returned.
Returned == pc \in {"return", "done"}

(***************************************************************************)
(* C1.  Round trip of build and parse.                                     *)
(***************************************************************************)
C1_InRange(es) ==
  \A i \in 1..Len(es) :
    /\ Len(es[i].key) \in 1..3
    /\ AllDigits(es[i].key)
    /\ Len(es[i].value) \in 1..99

C1_ValuesWithoutWhitespace(es) == \A i \in 1..Len(es) : NoWhitespace(es[i].value)

\* C1 as stated: for build entries with keys of 1 to 3 digits and values of 1
\* to 99 characters, parsing the built string gives no errors and the same
\* (key, value) pairs in the same order, each len the length of its value.
C1_RoundTripAsStated ==
  (Returned /\ klvString = built /\ C1_InRange(entries)) =>
    /\ errors = <<>>
    /\ Len(results) = Len(entries)
    /\ \A i \in 1..Len(entries) :
         /\ results[i].key = entries[i].key
         /\ results[i].value = entries[i].value
         /\ results[i].len = Len(entries[i].value)

\* C1 as amended: when moreover no value holds a whitespace character,
\* parsing the built string gives no errors and, in the same order, the pairs
\* (key left-padded with zeros to 3 characters, value), each len the length of
\* its value.
C1_RoundTrip ==
  (/\ Returned
   /\ klvString = built
   /\ C1_InRange(entries)
   /\ C1_ValuesWithoutWhitespace(entries)) =>
    /\ errors = <<>>
    /\ Len(results) = Len(entries)
    /\ \A i \in 1..Len(entries) :
         /\ results[i].key = ZeroPadded3(entries[i].key)
         /\ results[i].value = entries[i].value
         /\ results[i].len = Len(entries[i].value)

C1_Witness ==
  /\ pc = "done"
  /\ klvString = built
  /\ Len(entries) = 2
  /\ C1_InRange(entries)
  /\ C1_ValuesWithoutWhitespace(entries)
  /\ Len(entries[1].key) < 3
  /\ Len(entries[2].value) = 99
  /\ Len(results) = 2


(***************************************************************************)
(* C2.  The offset law.                                                    *)
(***************************************************************************)
\* C2: in the entries of one parse, the first has pos 0 and each next one has
\* pos = the previous pos + 5 + the previous len, so pos strictly increases.
C2_OffsetLaw ==
  /\ results # <<>> => results[1].pos = 0
  /\ \A i \in 1..(Len(results) - 1) :
       /\ results[i + 1].pos = results[i].pos + 5 + results[i].len
       /\ results[i + 1].pos > results[i].pos

C2_Witness ==
  /\ pc = "done"
  /\ Len(results) >= 2
  /\ results[1].len > 0
  /\ results[2].pos = 5 + results[1].len

(***************************************************************************)
(* C3.  len and value of an entry.                                         *)
(***************************************************************************)
\* C3: for every entry, len is the base-10 value (0 to 99) of the two digits
\* after the key in the cleaned buffer, and value is the len characters of
\* the buffer from position pos + 5 on.
C3_LenAndValue ==
  \A i \in 1..Len(results) :
    LET e == results[i]
    IN  /\ e.pos + 5 <= Len(clean)
        /\ clean[e.pos + 4] \in Digits
        /\ clean[e.pos + 5] \in Digits
        /\ e.len = 10 * DigitValue(clean[e.pos + 4]) + DigitValue(clean[e.pos + 5])
        /\ e.len \in 0..99
        /\ Len(e.value) = e.len
        /\ e.pos + 5 + e.len <= Len(clean)
        /\ \A j \in 1..e.len : e.value[j] = clean[e.pos + 5 + j]

C3_Witness ==
  /\ pc = "done"
  /\ \E i \in 1..Len(results) :
       /\ results[i].len >= 10
       /\ results[i].pos > 0
       /\ results[i].value[10] = clean[results[i].pos + 15]

(***************************************************************************)
(* C4.  Parsing halts at the first structural error.                       *)
(***************************************************************************)
C4_MessagesAt(p) ==
  {<<"Incomplete entry at position ">> \o toString(p),
   <<"Invalid format at position ">> \o toString(p),
   <<"Incomplete value at position ">> \o toString(p + 5)}

\* C4: there is at most one error, and when there is one, parse has stopped,
\* the error is about the field starting at the cursor, and the entries are
\* exactly the fields before it: they tile the buffer from 0 to the cursor,
\* none reaching into or beyond the failing field.
C4_HaltsAtFirstError ==
  /\ Len(errors) <= 1
  /\ Len(errors) = 1 =>
       /\ Returned
       /\ errors[1] \in C4_MessagesAt(pos)
       /\ pos < Len(clean)
       /\ \A i \in 1..Len(results) :
            /\ results[i].pos =
                 (IF i = 1 THEN 0 ELSE results[i - 1].pos + 5 + results[i - 1].len)
            /\ results[i].pos + 5 + results[i].len <= pos
       /\ pos = (IF results = <<>> THEN 0
                 ELSE results[Len(results)].pos + 5 + results[Len(results)].len)

C4_Witness ==
  /\ pc = "done"
  /\ Len(errors) = 1
  /\ Len(results) >= 1
  /\ pos + 5 <= Len(clean)

(***************************************************************************)
(* C5.  validate is derived from parse.                                    *)
(***************************************************************************)
\* C5: validate(s) reports isValid exactly when parse(s) has no errors, the
\* number of entries of parse(s), the errors of parse(s), and the number of
\* characters of s that are not whitespace.
C5_ValidateFromParse ==
  pc = "done" =>
    /\ validation.isValid = (errors = <<>>)
    /\ validation.entriesCount = Len(results)
    /\ validation.errors = errors
    /\ validation.totalLength =
         Cardinality({i \in 1..Len(klvString) : klvString[i] \notin WhiteSpace})

C5_Witness ==
  /\ pc = "done"
  /\ validation.isValid = FALSE
  /\ validation.totalLength > 0
  /\ validation.totalLength < Len(klvString)


(***************************************************************************)
(* C6.  Totality and termination.                                          *)
(***************************************************************************)
C6_Bounded == pos <= Len(clean) /\ iterations <= Len(clean)

\* In the loop, either the loop condition is false or the pass through the
\* body has one of its four outcomes: there is always a step to the return.
C6_NotStuck ==
  pc = "loop" =>
    \/ ~(pos < Len(clean))
    \/ loopBody(clean, pos).kind \in
         {"IncompleteEntry", "InvalidFormat", "IncompleteValue", "Entry"}

C6_IterationStopsOrAdvances ==
  (pc = "loop" /\ iterations' = iterations + 1) =>
    \/ pc' = "return" /\ Len(errors') = Len(errors) + 1 /\ results' = results
    \/ pc' = "loop" /\ pos' >= pos + 5 /\ errors' = errors

\* C6: for every input (the empty string, pure whitespace and non-ASCII
\* characters included) parse is never stuck short of its return, every pass
\* through the loop body either stops with an error or moves the cursor on by
\* at least 5, and the number of passes never exceeds the length of the
\* cleaned buffer.
C6_Termination ==
  /\ [](C6_Bounded /\ C6_NotStuck)
  /\ [][C6_IterationStopsOrAdvances]_vars

C6_Witness ==
  /\ pc = "done"
  /\ iterations >= 2
  /\ Len(errors) = 1
  /\ \E i \in 1..Len(klvString) : klvString[i] \in WhiteSpace


(***************************************************************************)
(* C7.  Whitespace insensitivity.                                          *)
(***************************************************************************)
\* c is s with every whitespace character removed.
C7_IsStripped(c, s) ==
  LET W == {i \in 1..Len(s) : s[i] \in WhiteSpace}
  IN  /\ Len(c) = Len(s) - Cardinality(W)
      /\ \A i \in (1..Len(s)) \ W :
           c[i - Cardinality({j \in W : j < i})] = s[i]

\* C7: what parse returns for a string is what it returns for the string
\* with every whitespace character removed, wherever the whitespace was; the
\* positions of entries and errors are positions of the cleaned buffer.
C7_WhitespaceInsensitive ==
  Returned =>
    /\ C7_IsStripped(clean, klvString)
    /\ [results |-> results, errors |-> errors] = parse(clean)
    /\ \A i \in 1..Len(results) : results[i].pos + 5 + results[i].len <= Len(clean)

C7_Witness ==
  /\ pc = "done"
  /\ results # <<>>
  /\ results[1].len >= 1
  /\ \E i \in 1..5 : klvString[i] \in WhiteSpace

(***************************************************************************)
(* C8.  Incomplete entry.                                                  *)
(***************************************************************************)
\* C8: a pass through the loop body with the cursor at p inside the buffer
\* and fewer than 5 characters left appends exactly the error "Incomplete
\* entry at position p", pushes no entry and stops.
C8_IncompleteEntry ==
  [][(pc = "loop" /\ pos < Len(clean) /\ pos + 5 > Len(clean)) =>
       /\ errors' = Append(errors, <<"Incomplete entry at position ">> \o toString(pos))
       /\ results' = results
       /\ pc' = "return"]_vars

C8_Witness ==
  /\ pc = "done"
  /\ results # <<>>
  /\ pos + 5 > Len(clean)
  /\ errors = <<<<"Incomplete entry at position ">> \o toString(pos)>>

(***************************************************************************)
(* C9.  Invalid format.                                                    *)
(***************************************************************************)
\* C9: a pass through the loop body with at least 5 characters left at the
\* cursor p, of which the first three or the next two are not all decimal
\* digits, appends exactly the error "Invalid format at position p", pushes
\* no entry and stops.
C9_InvalidFormat ==
  [][(/\ pc = "loop"
      /\ pos + 5 <= Len(clean)
      /\ \E j \in 1..5 : clean[pos + j] \notin Digits) =>
       /\ errors' = Append(errors, <<"Invalid format at position ">> \o toString(pos))
       /\ results' = results
       /\ pc' = "return"]_vars

C9_Witness ==
  /\ pc = "done"
  /\ results # <<>>
  /\ pos + 5 <= Len(clean)
  /\ \A j \in 4..5 : clean[pos + j] \in Digits
  /\ errors = <<<<"Invalid format at position ">> \o toString(pos)>>

(***************************************************************************)
(* C10.  Incomplete value.                                                 *)
(***************************************************************************)
\* C10: a pass through the loop body with a well-formed key and length prefix
\* at the cursor p, whose value would end beyond the buffer, appends exactly
\* the error "Incomplete value at position p+5", pushes no entry and stops.
C10_IncompleteValue ==
  [][(/\ pc = "loop"
      /\ pos + 5 <= Len(clean)
      /\ \A j \in 1..5 : clean[pos + j] \in Digits
      /\ pos + 5 + 10 * DigitValue(clean[pos + 4]) + DigitValue(clean[pos + 5])
           > Len(clean)) =>
       /\ errors' = Append(errors, <<"Incomplete value at position ">> \o toString(pos + 5))
       /\ results' = results
       /\ pc' = "return"]_vars

C10_Witness ==
  /\ pc = "done"
  /\ results # <<>>
  /\ pos > 0
  /\ errors = <<<<"Incomplete value at position ">> \o toString(pos + 5)>>

(***************************************************************************)
(* C11.  Empty or all-whitespace input is not an error: parse returns no   *)
(* entries and no errors, and validate reports isValid true, entriesCount  *)
(* 0 and totalLength 0.  A field whose length prefix is 00 is valid: it    *)
(* yields an entry with value "" and len 0, and no error.                  *)
(***************************************************************************)
C11_Blank == \A i \in 1..Len(klvString) : klvString[i] \in WhiteSpace

C11_BlankIsValid ==
  /\ Returned /\ C11_Blank => results = <<>> /\ errors = <<>>
  /\ pc = "done" /\ C11_Blank =>
       validation = [isValid |-> TRUE, entriesCount |-> 0, errors |-> <<>>,
                     totalLength |-> 0]

\* The cursor stands on three digits followed by 00.
C11_AtZeroLengthField ==
  /\ pc = "loop"
  /\ pos + 5 <= Len(clean)
  /\ \A i \in 1..3 : clean[pos + i] \in Digits
  /\ clean[pos + 4] = "0"
  /\ clean[pos + 5] = "0"

C11_ZeroLengthFieldIsValid ==
  C11_AtZeroLengthField =>
    /\ Len(results') = Len(results) + 1
    /\ results'[Len(results')].key = SubSeq(clean, pos + 1, pos + 3)
    /\ results'[Len(results')].value = <<>>
    /\ results'[Len(results')].len = 0
    /\ results'[Len(results')].pos = pos
    /\ errors' = errors
    /\ pos' = pos + 5

C11_EmptyInputAndZeroLength ==
  []C11_BlankIsValid /\ [][C11_ZeroLengthFieldIsValid]_vars

\* A non-empty input of whitespace only has been parsed and validated.
C11_Witness ==
  /\ pc = "done"
  /\ klvString # <<>>
  /\ C11_Blank
  /\ validation.isValid

\* A zero-length field that follows another entry has been pushed.
C11_ZeroLengthReached ==
  /\ Returned
  /\ Len(results) >= 2
  /\ results[2].len = 0
  /\ errors = <<>>

(***************************************************************************)
(* C12.  Field name lookup: the name of every entry returned by parse is   *)
(* the name the table of definitions gives its key when the key is         *)
(* registered ("999" is registered, as "Generic Key"), and is "Unknown"    *)
(* for every 3-digit key that is not registered.                           *)
(***************************************************************************)
C12_Registered(key) == \E p \in definitions : p[1] = key

C12_NameOfEntry(r) ==
  /\ \A p \in definitions : p[1] = r.key => r.name = p[2]
  /\ ~C12_Registered(r.key) => r.name = "Unknown"
  /\ r.key = <<"9", "9", "9">> => r.name = "Generic Key"
  /\ r.key = <<"0", "0", "2">> => r.name = "Tracking Number"

C12_NameLookup == \A i \in 1..Len(results) : C12_NameOfEntry(results[i])

\* A parse has returned the generic key followed by a key of no table row.
C12_Witness ==
  /\ Returned
  /\ Len(results) = 2
  /\ results[1].key = <<"9", "9", "9">>
  /\ results[1].name = "Generic Key"
  /\ ~C12_Registered(results[2].key)
  /\ results[2].name = "Unknown"

(***************************************************************************)
(* Helpers of the decorator properties.                                    *)
(***************************************************************************)
\* v left-padded with "0" to n characters, position by position.
ZeroPadded(v, n) ==
  LET k == IF Len(v) >= n THEN 0 ELSE n - Len(v)
  IN  [i \in 1..(k + Len(v)) |-> IF i <= k THEN "0" ELSE v[i - k]]

\* The value names a property every object inherits.
NamesInherited(v) == \E p \in ObjectPrototype : p[1] = v

(***************************************************************************)
(* C13.  Currency decorator: formatCurrency(value, key) returns null for   *)
(* every key other than "049".  For key "049" it left-pads the value to 3  *)
(* characters with zeros; if the padded code is a key of the currency      *)
(* table it returns formattedValue "<flag> <code> - <name>" with           *)
(* currencyInfo {code, name, flag} of that row; for every other value it   *)
(* returns "<value> (Unknown Currency Code)" with currencyInfo undefined.  *)
(***************************************************************************)
C13_Called == pc = "returned" /\ call.fn = "formatCurrency"

C13_Found(row) ==
  ret = [formattedValue |-> <<row.flag, " ", row.code, " - ", row.name>>,
         currencyInfo |-> [code |-> [string |-> row.code],
                           name |-> [string |-> row.name],
                           flag |-> [string |-> row.flag]]]

C13_Unknown ==
  ret = [formattedValue |-> call.value \o <<" (Unknown Currency Code)">>,
         currencyInfo |-> undefined]

C13_Decorated ==
  LET padded == ZeroPadded(call.value, 3)
  IN  IF \E p \in currencyMapping : p[1] = padded
      THEN \A p \in currencyMapping : p[1] = padded => C13_Found(p[2])
      ELSE C13_Unknown

\* The property as stated: it fails for the values that name an inherited
\* property of the table object.
C13_CurrencyDecoratorAsStated ==
  C13_Called =>
    IF call.key # <<"0", "4", "9">> THEN ret = null ELSE C13_Decorated

\* What holds: the same for every value that names no inherited property.
C13_CurrencyDecorator ==
  C13_Called /\ ~NamesInherited(ZeroPadded(call.value, 3)) =>
    IF call.key # <<"0", "4", "9">> THEN ret = null ELSE C13_Decorated

\* formatCurrency('toString', '049') has returned a decoration that is not
\* the unknown one.
C13_Witness ==
  /\ C13_Called
  /\ call.key = <<"0", "4", "9">>
  /\ call.value = <<"t", "o", "S", "t", "r", "i", "n", "g">>
  /\ ret.currencyInfo # undefined
  /\ ret.formattedValue = <<"undefined", " ", "undefined", " - ", "toString">>

(***************************************************************************)
(* C14.  MCC decorator: formatMCC(value, key) returns null for every key   *)
(* other than "026".  For key "026" it left-pads the value to 4 characters *)
(* with zeros; if the padded code is a key of the MCC table it returns     *)
(* formattedValue "<paddedCode> - <description>" with mccInfo {code:       *)
(* paddedCode, description}; for every other value it returns              *)
(* "<paddedCode> (Unknown MCC)" with mccInfo undefined.                    *)
(***************************************************************************)
C14_Called == pc = "returned" /\ call.fn = "formatMCC"

C14_Found(padded, description) ==
  ret = [formattedValue |-> padded \o <<" - ", description>>,
         mccInfo |-> [code |-> padded,
                      description |-> [string |-> description]]]

C14_Unknown(padded) ==
  ret = [formattedValue |-> padded \o <<" (Unknown MCC)">>,
         mccInfo |-> undefined]

C14_Decorated ==
  LET padded == ZeroPadded(call.value, 4)
  IN  IF \E p \in mccMapping : p[1] = padded
      THEN \A p \in mccMapping : p[1] = padded => C14_Found(padded, p[2])
      ELSE C14_Unknown(padded)

\* The property as stated: it fails for the values that name an inherited
\* property of the table object.
C14_MccDecoratorAsStated ==
  C14_Called =>
    IF call.key # <<"0", "2", "6">> THEN ret = null ELSE C14_Decorated

\* What holds: the same for every value that names no inherited property.
C14_MccDecorator ==
  C14_Called /\ ~NamesInherited(ZeroPadded(call.value, 4)) =>
    IF call.key # <<"0", "2", "6">> THEN ret = null ELSE C14_Decorated

\* formatMCC('constructor', '026') has returned a decoration that is not
\* the unknown one.
C14_Witness ==
  /\ C14_Called
  /\ call.key = <<"0", "2", "6">>
  /\ call.value = <<"c", "o", "n", "s", "t", "r", "u", "c", "t", "o", "r">>
  /\ ret.mccInfo # undefined
  /\ ret.formattedValue =
       call.value \o <<" - ", "function Object() { [native code] }">>

(***************************************************************************)
(* C15.  At most one decorator annotates an entry: no entry returned by    *)
(* parse carries both currencyInfo and mccInfo, and formattedValue is      *)
(* present on the entries with key "049" or "026" and on no other entry.   *)
(***************************************************************************)
C15_OneDecoratorOf(r) ==
  /\ ~("currencyInfo" \in DOMAIN r /\ "mccInfo" \in DOMAIN r)
  /\ "formattedValue" \in DOMAIN r <=>
       r.key \in {<<"0", "4", "9">>, <<"0", "2", "6">>}
  /\ "currencyInfo" \in DOMAIN r => r.key = <<"0", "4", "9">>
  /\ "mccInfo" \in DOMAIN r => r.key = <<"0", "2", "6">>

C15_OneDecorator == \A i \in 1..Len(results) : C15_OneDecoratorOf(results[i])

\* A parse has returned a currency entry, an MCC entry and a plain entry.
C15_Witness ==
  /\ Returned
  /\ Len(results) = 3
  /\ "currencyInfo" \in DOMAIN results[1]
  /\ "mccInfo" \in DOMAIN results[2]
  /\ "formattedValue" \notin DOMAIN results[3]

(***************************************************************************)
(* Helpers of the builder properties.                                      *)
(***************************************************************************)
\* build has returned (the run began with a list of entries to build).
Built == pc \in {"built", "input", "loop", "return", "done"}

Survives(e) == Len(e.key) > 0 /\ Len(e.value) > 0
Survivors(es) == SelectSeq(es, Survives)

\* The decimal digits of n, most significant first, for n < 10000.
Decimal(n) ==
  LET d(k) == DigitChar((n \div k) % 10)
  IN  IF n < 10 THEN <<d(1)>>
      ELSE IF n < 100 THEN <<d(10), d(1)>>
      ELSE IF n < 1000 THEN <<d(100), d(10), d(1)>>
      ELSE <<d(1000), d(100), d(10), d(1)>>

(***************************************************************************)
(* C16.  Builder filtering: build drops every entry whose key is empty or  *)
(* whose value is empty and serializes the others, so build(entries)       *)
(* equals build of the entries that remain, and is the empty string when   *)
(* no entry remains (also for the empty list).                             *)
(***************************************************************************)
C16_BuilderFiltering ==
  Built =>
    /\ built = build(Survivors(entries))
    /\ Survivors(entries) = <<>> => built = <<>>
    /\ Survivors(entries) # <<>> => built # <<>>

\* build has returned for two entries of which it dropped one.
C16_Witness ==
  /\ pc = "built"
  /\ Len(entries) = 2
  /\ Len(Survivors(entries)) = 1
  /\ built # <<>>

\* build has returned the empty string for a list whose entries were all
\* dropped.
C16_AllDroppedReached ==
  /\ pc = "built"
  /\ Len(entries) = 2
  /\ Survivors(entries) = <<>>
  /\ built = <<>>

(***************************************************************************)
(* C17.  Builder serialization: build returns the concatenation, in input  *)
(* order and without separators, of one segment per surviving entry: the   *)
(* key left-padded with "0" to 3 characters (a longer key is emitted       *)
(* unchanged), then the decimal length of the value left-padded with "0"   *)
(* to 2 characters, then the value unchanged.                              *)
(***************************************************************************)
C17_Segment(e) ==
  ZeroPadded(e.key, 3) \o ZeroPadded(Decimal(Len(e.value)), 2) \o e.value

RECURSIVE C17_Concat(_)
C17_Concat(es) ==
  IF es = <<>> THEN <<>>
  ELSE C17_Concat(SubSeq(es, 1, Len(es) - 1)) \o C17_Segment(es[Len(es)])

C17_BuilderSerialization == Built => built = C17_Concat(Survivors(entries))

\* build has returned for a key of 4 characters followed by a key of 1.
C17_Witness ==
  /\ pc = "built"
  /\ Len(entries) = 2
  /\ Len(Survivors(entries)) = 2
  /\ Len(entries[1].key) = 4
  /\ Len(entries[2].key) = 1
  /\ SubSeq(built, 1, 4) = entries[1].key

(***************************************************************************)
(* C18.  Builder length overflow: build neither fails nor clamps.  For a   *)
(* value of 100 or more characters the length field holds the full decimal *)
(* length, 3 or more digits; for a value of 1 to 99 characters it holds    *)
(* exactly 2 digits.  The value follows in full.                           *)
(***************************************************************************)
C18_KeyWidth(e) == IF Len(e.key) > 3 THEN Len(e.key) ELSE 3
C18_FieldWidth(e) == IF Len(e.value) <= 99 THEN 2 ELSE Len(Decimal(Len(e.value)))
C18_SegmentWidth(e) == C18_KeyWidth(e) + C18_FieldWidth(e) + Len(e.value)

RECURSIVE C18_Offset(_, _)
C18_Offset(es, j) ==
  IF j = 1 THEN 0 ELSE C18_Offset(es, j - 1) + C18_SegmentWidth(es[j - 1])

RECURSIVE C18_Decode(_)
C18_Decode(s) ==
  IF s = <<>> THEN 0
  ELSE 10 * C18_Decode(SubSeq(s, 1, Len(s) - 1)) + DigitValue(s[Len(s)])

C18_LengthFieldOf(es, j) ==
  LET from == C18_Offset(es, j) + C18_KeyWidth(es[j])
  IN  SubSeq(built, from + 1, from + C18_FieldWidth(es[j]))

C18_ValueOf(es, j) ==
  LET from == C18_Offset(es, j) + C18_KeyWidth(es[j]) + C18_FieldWidth(es[j])
  IN  SubSeq(built, from + 1, from + Len(es[j].value))

C18_BuilderLengthOverflow ==
  Built =>
    LET es == Survivors(entries)
    IN  /\ Len(built) = C18_Offset(es, Len(es) + 1)
        /\ \A j \in 1..Len(es) :
             /\ AllDigits(C18_LengthFieldOf(es, j))
             /\ C18_Decode(C18_LengthFieldOf(es, j)) = Len(es[j].value)
             /\ Len(es[j].value) <= 99 => Len(C18_LengthFieldOf(es, j)) = 2
             /\ Len(es[j].value) >= 100 => Len(C18_LengthFieldOf(es, j)) >= 3
             /\ C18_ValueOf(es, j) = es[j].value

\* build has returned for a value of 100 characters followed by one of 99.
C18_Witness ==
  /\ pc = "built"
  /\ Len(entries) = 2
  /\ Len(Survivors(entries)) = 2
  /\ Len(entries[1].value) = 100
  /\ Len(entries[2].value) = 99
  /\ Len(built) > 200

(***************************************************************************)
(* Helpers of the export properties.                                       *)
(***************************************************************************)
Exported(format) ==
  /\ pc = "returned"
  /\ call.fn = "export"
  /\ "format" \in DOMAIN call
  /\ call.format = format

\* The lines of a text: what lies between its line feeds.
LineFeeds(s) == {i \in 1..Len(s) : s[i] = "\n"}

NthLineFeed(s, k) ==
  IF k = 0 THEN 0
  ELSE IF k > Cardinality(LineFeeds(s)) THEN Len(s) + 1
  ELSE CHOOSE i \in LineFeeds(s) :
         Cardinality({j \in LineFeeds(s) : j <= i}) = k

Line(s, k) == SubSeq(s, NthLineFeed(s, k - 1) + 1, NthLineFeed(s, k) - 1)

\* s left-justified in n characters.
LeftJustified(s, n) ==
  [i \in 1..(IF Len(s) > n THEN Len(s) ELSE n) |->
     IF i <= Len(s) THEN s[i] ELSE " "]

\* A text kept as one element, left-justified in n characters.
LeftJustifiedText(text, n) ==
  <<text>> \o [i \in 1..(IF Len(text) > n THEN 0 ELSE n - Len(text)) |-> " "]

(***************************************************************************)
(* C19.  CSV export: export(entries, 'csv') is the header line             *)
(* "Key,Name,Length,Value,Position" followed by one line per entry in      *)
(* input order, each line being the double-quoted, comma-joined fields     *)
(* key, name, len, value, pos; for an empty list it is the header line     *)
(* alone.                                                                  *)
(***************************************************************************)
C19_Quoted(field) == <<"\"">> \o field \o <<"\"">>

C19_Row(r) ==
  C19_Quoted(r.key) \o <<",">> \o C19_Quoted(<<r.name>>) \o <<",">>
    \o C19_Quoted(Decimal(r.len)) \o <<",">> \o C19_Quoted(r.value)
    \o <<",">> \o C19_Quoted(Decimal(r.pos))

C19_CsvExport ==
  Exported("csv") =>
    LET n == Len(call.results)
    IN  /\ Line(ret, 1) = <<"Key,Name,Length,Value,Position">>
        /\ n = 0 => ret = <<"Key,Name,Length,Value,Position", "\n">>
        /\ n > 0 => Cardinality(LineFeeds(ret)) = n
        /\ \A k \in 1..n : Line(ret, k + 1) = C19_Row(call.results[k])

\* A CSV export of three entries has returned.
C19_Witness ==
  /\ Exported("csv")
  /\ Len(call.results) = 3
  /\ Cardinality(LineFeeds(ret)) = 3

\* A CSV export of no entry has returned.
C19_EmptyReached ==
  /\ Exported("csv")
  /\ call.results = <<>>
  /\ Len(ret) = 2

(***************************************************************************)
(* C20.  Table export: export(entries, 'table') has one line per entry in  *)
(* input order and no header; a line is the key left-justified in 5        *)
(* characters, a space, the name left-justified in 30, a space, the        *)
(* decimal len left-justified in 3, a space, and the value as it is; for   *)
(* an empty list it is the empty string.                                   *)
(***************************************************************************)
C20_Row(r) ==
  LeftJustified(r.key, 5) \o <<" ">> \o LeftJustifiedText(r.name, 30)
    \o <<" ">> \o LeftJustified(Decimal(r.len), 3) \o <<" ">> \o r.value

C20_TableExport ==
  Exported("table") =>
    LET n == Len(call.results)
    IN  /\ n = 0 => ret = <<>>
        /\ n > 0 => Cardinality(LineFeeds(ret)) = n - 1
        /\ \A k \in 1..n : Line(ret, k) = C20_Row(call.results[k])

\* A table export has returned two lines, the second with a name of more
\* than 30 characters.
C20_Witness ==
  /\ Exported("table")
  /\ Len(call.results) = 2
  /\ Len(call.results[2].name) > 30
  /\ Len(call.results[1].name) < 30
  /\ Cardinality(LineFeeds(ret)) = 1

\* A table export of no entry has returned.
C20_EmptyReached ==
  /\ Exported("table")
  /\ call.results = <<>>
  /\ ret = <<>>

(***************************************************************************)
(* C21.  Export format fallback: export with a format other than 'json',   *)
(* 'csv' or 'table', and export without a format, return the same string   *)
(* as export with 'json'; for an empty list that string is "[]".           *)
(***************************************************************************)
C21_FallsBack ==
  /\ pc = "returned"
  /\ call.fn = "export"
  /\ "format" \in DOMAIN call => call.format \notin {"json", "csv", "table"}

C21_ExportFallback ==
  C21_FallsBack =>
    /\ ret = export(call.results, "json")
    /\ call.results = <<>> => ret = <<"[", "]">>
    /\ call.results # <<>> =>
         /\ Head(ret) = "[" /\ ret[Len(ret)] = "]"
         /\ ret # exportCsv(call.results)
         /\ ret # exportTable(call.results)

\* export has returned for two entries and a format it does not know.
C21_Witness ==
  /\ C21_FallsBack
  /\ "format" \in DOMAIN call
  /\ Len(call.results) = 2
  /\ Head(ret) = "["

\* export has returned for the empty list and no format.
C21_OmittedReached ==
  /\ C21_FallsBack
  /\ "format" \notin DOMAIN call
  /\ call.results = <<>>
  /\ ret = <<"[", "]">>

(***************************************************************************)
(* C22.  The 2-digit length field is read in base 10, not in base 16 as    *)
(* the README says: a length field holding one of the digits A to F is an  *)
(* invalid format, and the length field "10" denotes a value of 10         *)
(* characters.                                                             *)
(***************************************************************************)
HexLetters == {"A", "B", "C", "D", "E", "F"}

HexValue(c) ==
  CASE c \in Digits -> DigitValue(c)
    [] c = "A" -> 10 [] c = "B" -> 11 [] c = "C" -> 12
    [] c = "D" -> 13 [] c = "E" -> 14 [] c = "F" -> 15

C22_LengthField(p) == SubSeq(clean, p + 4, p + 5)

\* The cursor stands on three digits followed by two hexadecimal digits.
C22_AtHexField ==
  /\ pc = "loop"
  /\ pos + 5 <= Len(clean)
  /\ \A j \in 1..3 : clean[pos + j] \in Digits
  /\ \A j \in 4..5 : clean[pos + j] \in Digits \cup HexLetters

\* The property as stated: the field is read in base 16, so the letters A
\* to F are accepted and "10" stands for 16.
C22_HexadecimalAsStated ==
  /\ \A i \in 1..Len(results) :
       LET f == C22_LengthField(results[i].pos)
       IN  results[i].len = 16 * HexValue(f[1]) + HexValue(f[2])
  /\ Returned /\ errors # <<>> =>
       ~(/\ pos + 5 <= Len(clean)
         /\ \A j \in 1..3 : clean[pos + j] \in Digits
         /\ \A j \in 4..5 : clean[pos + j] \in Digits \cup HexLetters
         /\ errors[1] = <<"Invalid format at position ">> \o Decimal(pos))

C22_DecimalOfEntries ==
  \A i \in 1..Len(results) :
    LET f == C22_LengthField(results[i].pos)
    IN  /\ f[1] \in Digits /\ f[2] \in Digits
        /\ results[i].len = 10 * DigitValue(f[1]) + DigitValue(f[2])
        /\ f = <<"1", "0">> => Len(results[i].value) = 10

C22_LetterIsInvalid ==
  C22_AtHexField /\ (\E j \in 4..5 : clean[pos + j] \in HexLetters) =>
    /\ errors' = Append(errors, <<"Invalid format at position ">> \o Decimal(pos))
    /\ results' = results
    /\ pc' = "return"

C22_DecimalLength == []C22_DecimalOfEntries /\ [][C22_LetterIsInvalid]_vars

\* A parse has returned a value of 10 characters for the length field "10"
\* and has stopped on what follows it.
C22_Witness ==
  /\ Returned
  /\ Len(clean) = 21
  /\ Len(results) = 1
  /\ C22_LengthField(0) = <<"1", "0">>
  /\ results[1].len = 10
  /\ errors # <<>>

\* A parse has refused the length field "0A".
C22_LetterReached ==
  /\ Returned
  /\ Len(clean) = 15
  /\ C22_LengthField(0) = <<"0", "A">>
  /\ results = <<>>
  /\ errors = <<<<"Invalid format at position ", "0">>>>

(***************************************************************************)
(* C26.  The sample input "04210000050010008USD" parses to one entry, with *)
(* key 042 and the 10-character value 0000500100, followed by the error    *)
(* "Invalid format at position 15": the five characters left, 08USD, are   *)
(* not a key and a length.  It does not parse to the three entries 042,    *)
(* 100 and 043.                                                            *)
(***************************************************************************)
C26_Sample == <<"0", "4", "2", "1", "0", "0", "0", "0", "0", "5", "0", "0", "1", "0",
    "0", "0", "8", "U", "S", "D">>

C26_Entered == Returned /\ klvString = C26_Sample

\* C26 as stated by the test of the App: the sample input parses to three
\* entries, with the keys 042, 100 and 043, and no error.
C26_ThreeEntriesAsStated ==
  C26_Entered =>
    /\ Len(results) = 3
    /\ results[1].key = <<"0", "4", "2">>
    /\ results[2].key = <<"1", "0", "0">>
    /\ results[3].key = <<"0", "4", "3">>
    /\ errors = <<>>

\* C26, what the code does: the sample input parses to one entry, key 042
\* with the 10-character value 0000500100, and the error "Invalid format at
\* position 15".
C26_SampleParse ==
  C26_Entered =>
    /\ Len(results) = 1
    /\ results[1].key = <<"0", "4", "2">>
    /\ results[1].len = 10
    /\ results[1].value = SubSeq(C26_Sample, 6, 15)
    /\ results[1].value = <<"0", "0", "0", "0", "5", "0", "0", "1", "0", "0">>
    /\ results[1].name = "Merchant Identifier"
    /\ errors = <<<<"Invalid format at position ", "1", "5">>>>

\* The sample has been parsed and validated.
C26_Witness ==
  /\ pc = "done"
  /\ klvString = C26_Sample
  /\ ~validation.isValid
  /\ validation.entriesCount = 1

(***************************************************************************)
(* C27.  The builder inverts the parser on valid input: when parse(s) has  *)
(* no error and every entry has len >= 1, build of the (key, value) pairs  *)
(* of the entries, in order, is s without its whitespace; and on every     *)
(* error-free parse the entries tile the cleaned buffer: the sum of        *)
(* 5 + len over the entries is its length.                                 *)
(***************************************************************************)
C27_Pairs(rs) ==
  [i \in 1..Len(rs) |-> [key |-> rs[i].key, value |-> rs[i].value]]

RECURSIVE C27_Tiled(_)
C27_Tiled(rs) ==
  IF rs = <<>> THEN 0
  ELSE C27_Tiled(SubSeq(rs, 1, Len(rs) - 1)) + 5 + rs[Len(rs)].len

C27_Valid == Returned /\ errors = <<>>

C27_BuildInvertsParse ==
  C27_Valid =>
    /\ C27_Tiled(results) = Len(SelectSeq(klvString, LAMBDA c : c \notin WhiteSpace))
    /\ (\A i \in 1..Len(results) : results[i].len >= 1) =>
         build(C27_Pairs(results)) =
           SelectSeq(klvString, LAMBDA c : c \notin WhiteSpace)

\* An input with whitespace has parsed without error into two entries with
\* values.
C27_Witness ==
  /\ C27_Valid
  /\ Len(results) = 2
  /\ \A i \in 1..2 : results[i].len >= 1
  /\ Len(klvString) > C27_Tiled(results)
  /\ build(C27_Pairs(results)) # klvString

(***************************************************************************)
(* C28.  Error precedence within one field: the checks come in the order   *)
(* incomplete entry, invalid format, incomplete value.  A trailing         *)
(* fragment of 1 to 4 characters is reported as "Incomplete entry" even    *)
(* when it holds a character that is not a digit, and a field whose key or *)
(* length prefix is malformed is reported as "Invalid format", never as    *)
(* "Incomplete value".                                                     *)
(***************************************************************************)
C28_Fragment == pc = "loop" /\ pos < Len(clean) /\ Len(clean) < pos + 5

C28_Malformed ==
  /\ pc = "loop"
  /\ pos + 5 <= Len(clean)
  /\ \E j \in 1..5 : clean[pos + j] \notin Digits

C28_Stops(message) ==
  /\ errors' = Append(errors, <<message>> \o Decimal(pos))
  /\ results' = results
  /\ pc' = "return"

C28_PrecedenceOfStep ==
  /\ C28_Fragment => C28_Stops("Incomplete entry at position ")
  /\ C28_Malformed => C28_Stops("Invalid format at position ")

\* No message of an incomplete value is ever given for a malformed header.
C28_NeverIncompleteValue ==
  \A i \in 1..Len(errors) :
    Head(errors[i]) = "Incomplete value at position " =>
      /\ pos + 5 <= Len(clean)
      /\ \A j \in 1..5 : clean[pos + j] \in Digits

C28_ErrorPrecedence ==
  []C28_NeverIncompleteValue /\ [][C28_PrecedenceOfStep]_vars

\* A parse has stopped on a trailing fragment that holds a character that
\* is not a digit.
C28_Witness ==
  /\ Returned
  /\ pos < Len(clean) /\ Len(clean) < pos + 5
  /\ \E j \in (pos + 1)..Len(clean) : clean[j] \notin Digits
  /\ errors = <<<<"Incomplete entry at position ">> \o Decimal(pos)>>

\* A parse has stopped on a malformed key whose length prefix runs past the
\* end of the input.
C28_MalformedAndShortReached ==
  /\ Returned
  /\ pos + 5 <= Len(clean)
  /\ clean[pos + 1] \notin Digits
  /\ \A j \in 4..5 : clean[pos + j] \in Digits
  /\ pos + 5 + 10 * DigitValue(clean[pos + 4]) + DigitValue(clean[pos + 5])
       > Len(clean)
  /\ errors = <<<<"Invalid format at position ">> \o Decimal(pos)>>

(***************************************************************************)
(* C23  The processing history.                                            *)
(***************************************************************************)

\* The data of the i-th entry of the history parses without an error.
C23_Successful(i) == parsed[history[i].data].errors = <<>>

\* The i-th entry of the history was added by the Save to History button.
C23_Saved(i) ==
  /\ history[i].label # <<"Built KLV">>
  /\ \A file \in FileLoads : history[i].label # <<"File: ">> \o file.filename

\* C23 as stated: whatever Save to History, file loads and builder results
\* have added, every entry of the history holds data that parses with no
\* error.
C23_OnlySuccessfulAsStated ==
  \A i \in 1..Len(history) : C23_Successful(i)

\* C23, the part that holds: every entry added by the Save to History button
\* holds data that parses with at least one result and no error, and its
\* result count is that parse's.
C23_SavedAreSuccessful ==
  \A i \in 1..Len(history) :
    C23_Saved(i) =>
      /\ C23_Successful(i)
      /\ history[i].resultCount = Len(parsed[history[i].data].results)
      /\ history[i].resultCount > 0

\* A saved entry is in the history.
C23_Witness ==
  \E i \in 1..Len(history) : C23_Saved(i) /\ history[i].resultCount = 2

(***************************************************************************)
(* C30  The history is bounded and newest first.                           *)
(***************************************************************************)

\* A step adds an entry to the history when it changes the history and
\* does not empty it.
C30_Adds == history' # history /\ history' # <<>>

\* C30 as stated: the history never holds more than 10 entries, a step
\* that adds an entry puts the entry of the data now in the input box
\* first, and an addition to a history of 10 entries leaves it, behind the
\* new entry, the nine newest of those entries in their order: only the
\* oldest is dropped.
C30_DropsOldestAsStated ==
  /\ [](Len(history) <= 10)
  /\ [][C30_Adds =>
          /\ history'[1].data = klvInput'
          /\ Len(history) = 10 =>
               /\ Len(history') = 10
               /\ \A i \in 2..10 : history'[i] = history[i - 1]]_vars

\* C30, the part that holds: the history never holds more than 10 entries;
\* a step that adds an entry puts the entry of the data now in the input
\* box first; and when the step is not the arrival of the text of a file,
\* the new entry is followed by the up to nine newest of the entries the
\* history held, in their order, so that the tenth is dropped.
C30_BoundedNewestFirst ==
  /\ [](Len(history) <= 10)
  /\ [][C30_Adds =>
          /\ history'[1].data = klvInput'
          /\ reading' = reading =>
               /\ Len(history') = IF Len(history) < 10 THEN Len(history) + 1
                                  ELSE 10
               /\ \A i \in 2..Len(history') : history'[i] = history[i - 1]]_vars

\* The history is full, its newest entry a builder result and the others
\* saved.
C30_Witness ==
  /\ Len(history) = 10
  /\ history[1].label = <<"Built KLV">>
  /\ \A i \in 2..10 : C23_Saved(i)
  /\ klvInput = history[1].data

(***************************************************************************)
(* C24  The form of the builder.                                           *)
(***************************************************************************)

\* C24: the form always holds at least one entry; a removal from a form of
\* one entry leaves the form as it is, a removal from a longer form takes
\* one entry away, and Clear All leaves the single entry of key "002" and
\* empty value.
C24_AtLeastOneEntry ==
  /\ [](Len(entries) >= 1)
  /\ [][/\ RemoveEntry /\ Len(entries) = 1 => entries' = entries
        /\ RemoveEntry /\ Len(entries) > 1 => Len(entries') = Len(entries) - 1
        /\ ClearAll =>
             entries' = << [key |-> <<"0", "0", "2">>, value |-> <<>>] >>]_vars

\* The form holds one entry, which is not the blank one: Add Entry, an
\* update and a removal have acted.
C24_Witness ==
  /\ pc = "builder"
  /\ Len(entries) = 1
  /\ entries[1].key = <<"0", "4", "9">>
  /\ entries[1].value = <<"A">>

\* The form has been filled to three entries and built.
C24_FilledReached ==
  /\ pc = "builder"
  /\ Len(entries) = 3
  /\ built # <<>>

(***************************************************************************)
(* C25  The response of batch processing.                                  *)
(***************************************************************************)

\* A line that holds white space only, or nothing.
C25_Blank(l) == \A i \in 1..Len(l) : l[i] \in WhiteSpace

\* The lines of a text are numbered 1, 2, ... between its line feeds; the
\* number of the i-th of them that is not blank.
C25_NonBlank(s) ==
  {k \in 1..(Cardinality(LineFeeds(s)) + 1) : ~C25_Blank(Line(s, k))}

C25_NthNonBlank(s, i) ==
  CHOOSE k \in C25_NonBlank(s) :
    Cardinality({j \in C25_NonBlank(s) : j <= k}) = i

\* A line that is not blank, from its first character that is not white
\* space to its last.
C25_Trimmed(l) ==
  LET inked == {i \in 1..Len(l) : l[i] \notin WhiteSpace}
      first == CHOOSE a \in inked : \A i \in inked : a <= i
      last == CHOOSE z \in inked : \A i \in inked : i <= z
  IN  [i \in 1..(last - first + 1) |-> l[first + i - 1]]

\* batch is the outcome the claim describes for the text s.
C25_Expected(s, batch) ==
  /\ Len(batch) = Cardinality(C25_NonBlank(s))
  /\ \A i \in 1..Len(batch) :
       /\ batch[i].line = i
       /\ batch[i].input = C25_Trimmed(Line(s, C25_NthNonBlank(s, i)))
       /\ batch[i].results = parse(batch[i].input).results
       /\ batch[i].errors = parse(batch[i].input).errors
       /\ DOMAIN batch[i] = {"line", "input", "results", "errors"}

\* The batches of the calls of processBatch that have not resumed.
C25_Waiting(calls) == [i \in 1..Len(calls) |-> calls[i].batchResults]

\* C25: a click of Process Batch, on a text with at least one line that is
\* not blank, sets the processing flag, which disables the button, and
\* leaves waiting one result for each line that is not blank, in the order
\* of the text: the i-th has line = i, the trimmed i-th such line as its
\* input, and that input's parse.  The flag is eventually cleared, and what
\* waits is eventually handed to onProcess, once: onProcess is called only
\* with the batch that has waited longest, which then waits no more, and
\* nothing else stops waiting.
C25_BatchResponse ==
  /\ [][~processing /\ processing' =>
          /\ Cardinality(C25_NonBlank(batchInput)) >= 1
          /\ Len(inFlight') = Len(inFlight) + 1
          /\ C25_Expected(batchInput, inFlight'[Len(inFlight')].batchResults)
          /\ onProcess' = onProcess]_vars
  /\ [](processing => ~ENABLED ProcessBatch)
  /\ (processing ~> ~processing)
  /\ (inFlight # <<>> ~> inFlight = <<>>)
  /\ [][onProcess' # onProcess =>
          /\ inFlight # <<>>
          /\ onProcess' = Append(onProcess, inFlight[1].batchResults)
          /\ C25_Waiting(inFlight') = Tail(C25_Waiting(inFlight))]_vars
  /\ [][C25_Waiting(inFlight') # C25_Waiting(inFlight) =>
          \/ onProcess' # onProcess
          \/ ~processing /\ processing']_vars

\* A batch of two results has come back from a text of three lines, one of
\* them blank, the others with white space around them.
C25_Witness ==
  /\ ~processing
  /\ Len(onProcess) >= 1
  /\ Len(onProcess[1]) = 2
  /\ onProcess[1][1].input = initialKlvInput
  /\ Len(onProcess[1][1].results) = 2
  /\ onProcess[1][2].line = 2
  /\ onProcess[1][2].input = <<"0", "4", "9", "0", "3", "8", "4", "0">>
  /\ batchResults = onProcess[1]

\* A batch has come back to a component that was no longer drawn.
C25_UnmountedReached ==
  /\ Len(onProcess) >= 1
  /\ inFlight = <<>>
  /\ batchResults = <<>>
  /\ ~cleared

(***************************************************************************)
(* C29  Clear and a batch in flight.                                       *)
(***************************************************************************)

\* C29 as stated: from a click of Clear until the next click of Process
\* Batch the displayed results are empty.
C29_StayEmptyAsStated == cleared => batchResults = <<>>

\* C29, the part that holds: Clear empties the displayed results, and after
\* it only a batch that was in flight fills them before the next click of
\* Process Batch.
C29_ClearEmpties ==
  /\ [][cleared' /\ ~cleared => batchResults' = <<>>]_vars
  /\ [][cleared /\ cleared' /\ batchResults = <<>> /\ batchResults' # <<>> =>
          inFlight # <<>> /\ batchResults' = inFlight[1].batchResults]_vars

\* Clear has been clicked after a batch came back, and nothing is in flight.
C29_Witness ==
  /\ cleared
  /\ inFlight = <<>>
  /\ batchResults = <<>>
  /\ onProcess # <<>>

\* Clear was clicked while a batch was in flight, and the batch has filled
\* the displayed results since.
C29_RefilledReached ==
  /\ cleared
  /\ batchInput = <<>>
  /\ batchResults # <<>>
  /\ ~processing

====
